---- MODULE Spec2Model ----
(***************************************************************************)
(* Model of the graph-based retrieval store of iac_gen_dspy                *)
(* (src/src/iac_gen_dspy/rag/graph_rag.py): the knowledge-base loader, the *)
(* graph / reverse-index builder and the query engine of GraphRAGStore.    *)
(*                                                                         *)
(* Texts (prompts, keywords, code bodies) are TLA+ strings and are         *)
(* processed character by character, as the regular expressions and the    *)
(* str methods of the source do.  Scores are exact rationals scaled by     *)
(* 10^4 (the source rounds every reported score to 4 decimals).            *)
(***************************************************************************)
EXTENDS Integers, Sequences, FiniteSets, TLC

(***************************************************************************)
(* Characters and str methods                                              *)
(***************************************************************************)
CharAt(s, i) == SubSeq(s, i, i)

UpperChars ==
    {"A","B","C","D","E","F","G","H","I","J","K","L","M",
     "N","O","P","Q","R","S","T","U","V","W","X","Y","Z"}

LowerChars ==
    {"a","b","c","d","e","f","g","h","i","j","k","l","m",
     "n","o","p","q","r","s","t","u","v","w","x","y","z"}

DigitChars == {"0","1","2","3","4","5","6","7","8","9"}

\* \s of the re module, restricted to ASCII
SpaceChars == {" ", "\t", "\n", "\r", "\f"}

\* [a-zA-Z0-9]
IsAlnum(c) == c \in UpperChars \cup LowerChars \cup DigitChars

\* \w of the re module, restricted to ASCII
IsWordChar(c) == IsAlnum(c) \/ c = "_"

LowerChar(c) ==
    CASE c = "A" -> "a" [] c = "B" -> "b" [] c = "C" -> "c" [] c = "D" -> "d"
      [] c = "E" -> "e" [] c = "F" -> "f" [] c = "G" -> "g" [] c = "H" -> "h"
      [] c = "I" -> "i" [] c = "J" -> "j" [] c = "K" -> "k" [] c = "L" -> "l"
      [] c = "M" -> "m" [] c = "N" -> "n" [] c = "O" -> "o" [] c = "P" -> "p"
      [] c = "Q" -> "q" [] c = "R" -> "r" [] c = "S" -> "s" [] c = "T" -> "t"
      [] c = "U" -> "u" [] c = "V" -> "v" [] c = "W" -> "w" [] c = "X" -> "x"
      [] c = "Y" -> "y" [] c = "Z" -> "z" [] OTHER -> c

\* str.lower()
RECURSIVE Lower(_)
Lower(s) == IF s = "" THEN "" ELSE LowerChar(Head(s)) \o Lower(Tail(s))

\* str.lstrip() / str.rstrip() / str.strip()
RECURSIVE LStrip(_)
LStrip(s) ==
    IF s # "" /\ Head(s) \in SpaceChars THEN LStrip(Tail(s)) ELSE s

RECURSIVE RStrip(_)
RStrip(s) ==
    IF s # "" /\ CharAt(s, Len(s)) \in SpaceChars
    THEN RStrip(SubSeq(s, 1, Len(s) - 1))
    ELSE s

Strip(s) == RStrip(LStrip(s))

\* "_" in s
HasUnderscore(s) == \E i \in 1..Len(s) : CharAt(s, i) = "_"

\* s.split("_"): the pieces between underscores, empty pieces included
RECURSIVE SplitFrom(_, _, _)
SplitFrom(s, start, i) ==
    IF i > Len(s) THEN {SubSeq(s, start, Len(s))}
    ELSE IF CharAt(s, i) = "_"
         THEN {SubSeq(s, start, i - 1)} \cup SplitFrom(s, i + 1, i + 1)
         ELSE SplitFrom(s, start, i + 1)

SplitUnderscore(s) == SplitFrom(s, 1, 1)

\* the first index >= i of s whose character fails the test, Len(s)+1 if none
RECURSIVE AlnumRunEnd(_, _)
AlnumRunEnd(s, i) ==
    IF i <= Len(s) /\ IsAlnum(CharAt(s, i)) THEN AlnumRunEnd(s, i + 1) ELSE i

RECURSIVE SpaceRunEnd(_, _)
SpaceRunEnd(s, i) ==
    IF i <= Len(s) /\ CharAt(s, i) \in SpaceChars THEN SpaceRunEnd(s, i + 1) ELSE i

RECURSIVE NonQuoteRunEnd(_, _)
NonQuoteRunEnd(s, i) ==
    IF i <= Len(s) /\ CharAt(s, i) # "\"" THEN NonQuoteRunEnd(s, i + 1) ELSE i

(***************************************************************************)
(* STOPWORDS                                                               *)
(***************************************************************************)
STOPWORDS ==
    {"a", "an", "and", "are", "as", "at", "be", "by", "for", "from",
     "has", "he", "in", "is", "it", "its", "of", "on", "that", "the",
     "to", "was", "will", "with", "this", "these", "those", "have",
     "can", "could", "should", "would", "may", "might", "must",
     "create", "using", "use", "set", "get", "make", "do", "does",
     "did", "done", "your", "my", "our", "their", "his", "her"}

\* len(comp) > 2 and comp not in STOPWORDS
PassesFilter(tok) == Len(tok) > 2 /\ tok \notin STOPWORDS

\* the components of an underscore-separated term, whatever their length
ComponentsUnfiltered(tok) ==
    IF HasUnderscore(tok) THEN SplitUnderscore(tok) ELSE {}

\* the components of an underscore-separated term that pass the filter
Components(tok) ==
    IF HasUnderscore(tok)
    THEN {comp \in SplitUnderscore(tok) : PassesFilter(comp)}
    ELSE {}

(***************************************************************************)
(* _token_pattern = [a-zA-Z0-9]+(?:_[a-zA-Z0-9]+)*  and findall            *)
(***************************************************************************)
\* the end (exclusive) of the longest token that starts at the alnum run
\* ending before e: each further "_" must be followed by an alnum run
RECURSIVE TokenEnd(_, _)
TokenEnd(s, e) ==
    IF e < Len(s) /\ CharAt(s, e) = "_" /\ IsAlnum(CharAt(s, e + 1))
    THEN TokenEnd(s, AlnumRunEnd(s, e + 1))
    ELSE e

RECURSIVE FindTokens(_, _)
FindTokens(s, i) ==
    IF i > Len(s) THEN {}
    ELSE IF IsAlnum(CharAt(s, i))
         THEN LET e == TokenEnd(s, AlnumRunEnd(s, i))
              IN  {SubSeq(s, i, e - 1)} \cup FindTokens(s, e)
         ELSE FindTokens(s, i + 1)

\* the keywords of a prompt without the test of the length of a token
_extract_prompt_keywords_any_length(prompt_text) ==
    LET found    == {Lower(t) : t \in FindTokens(prompt_text, 1)}
        retained == {t \in found : t \notin STOPWORDS}
    IN  retained \cup UNION {Components(t) : t \in retained}

_extract_prompt_keywords(prompt_text) ==
    LET found    == {Lower(t) : t \in FindTokens(prompt_text, 1)}
        retained == {t \in found : PassesFilter(t)}
    IN  retained \cup UNION {Components(t) : t \in retained}

(***************************************************************************)
(* _resource_pattern = resource\s+"(?P<type>[^"]+)"  (IGNORECASE), findall *)
(***************************************************************************)
\* the match of the pattern that starts at i: <<type, end>> or <<>>
ResourceMatchAt(s, i) ==
    IF i + 7 <= Len(s) /\ Lower(SubSeq(s, i, i + 7)) = "resource"
    THEN LET sp == SpaceRunEnd(s, i + 8)
         IN  IF sp > i + 8 /\ sp <= Len(s) /\ CharAt(s, sp) = "\""
             THEN LET q == NonQuoteRunEnd(s, sp + 1)
                  IN  IF q > sp + 1 /\ q <= Len(s)
                      THEN <<SubSeq(s, sp + 1, q - 1), q + 1>>
                      ELSE <<>>
             ELSE <<>>
    ELSE <<>>

RECURSIVE FindResources(_, _)
FindResources(s, i) ==
    IF i > Len(s) THEN {}
    ELSE LET m == ResourceMatchAt(s, i)
         IN  IF m # <<>>
             THEN {m[1]} \cup FindResources(s, m[2])
             ELSE FindResources(s, i + 1)

_extract_resource_types(iac_code) ==
    {Lower(Strip(m)) : m \in FindResources(iac_code, 1)}

(***************************************************************************)
(* _detect_prompt_resources                                                *)
(***************************************************************************)
\* [a-z0-9_]
IsAwsChar(c) == c \in LowerChars \cup DigitChars \cup {"_"}

RECURSIVE AwsRunEnd(_, _)
AwsRunEnd(s, i) ==
    IF i <= Len(s) /\ IsAwsChar(CharAt(s, i)) THEN AwsRunEnd(s, i + 1) ELSE i

\* re.findall(r"aws_[a-z0-9_]+", s)
RECURSIVE FindAwsIdentifiers(_, _)
FindAwsIdentifiers(s, i) ==
    IF i > Len(s) THEN {}
    ELSE IF i + 3 <= Len(s) /\ SubSeq(s, i, i + 3) = "aws_"
            /\ AwsRunEnd(s, i + 4) > i + 4
         THEN LET e == AwsRunEnd(s, i + 4)
              IN  {SubSeq(s, i, e - 1)} \cup FindAwsIdentifiers(s, e)
         ELSE FindAwsIdentifiers(s, i + 1)

\* service_map without the entry of "bucket"
service_map_without_bucket ==
    {<<"s3", "aws_s3_bucket">>,
     <<"ec2", "aws_instance">>, <<"instance", "aws_instance">>,
     <<"vpc", "aws_vpc">>, <<"subnet", "aws_subnet">>,
     <<"lambda", "aws_lambda_function">>, <<"function", "aws_lambda_function">>,
     <<"iam", "aws_iam_role">>, <<"role", "aws_iam_role">>,
     <<"policy", "aws_iam_policy">>,
     <<"dynamodb", "aws_dynamodb_table">>, <<"table", "aws_dynamodb_table">>,
     <<"rds", "aws_db_instance">>, <<"database", "aws_db_instance">>,
     <<"security group", "aws_security_group">>, <<"sg", "aws_security_group">>,
     <<"load balancer", "aws_lb">>, <<"alb", "aws_lb">>,
     <<"elb", "aws_elb">>,
     <<"route53", "aws_route53_zone">>, <<"dns", "aws_route53_zone">>,
     <<"cloudwatch", "aws_cloudwatch_log_group">>,
     <<"sns", "aws_sns_topic">>,
     <<"sqs", "aws_sqs_queue">>, <<"queue", "aws_sqs_queue">>,
     <<"elasticbeanstalk", "aws_elastic_beanstalk_environment">>,
     <<"beanstalk", "aws_elastic_beanstalk_environment">>,
     <<"ecs", "aws_ecs_cluster">>,
     <<"fargate", "aws_ecs_service">>,
     <<"eks", "aws_eks_cluster">>, <<"kubernetes", "aws_eks_cluster">>}

\* service_map, as its (term, resource) items
service_map ==
    {<<"s3", "aws_s3_bucket">>, <<"bucket", "aws_s3_bucket">>,
     <<"ec2", "aws_instance">>, <<"instance", "aws_instance">>,
     <<"vpc", "aws_vpc">>, <<"subnet", "aws_subnet">>,
     <<"lambda", "aws_lambda_function">>, <<"function", "aws_lambda_function">>,
     <<"iam", "aws_iam_role">>, <<"role", "aws_iam_role">>,
     <<"policy", "aws_iam_policy">>,
     <<"dynamodb", "aws_dynamodb_table">>, <<"table", "aws_dynamodb_table">>,
     <<"rds", "aws_db_instance">>, <<"database", "aws_db_instance">>,
     <<"security group", "aws_security_group">>, <<"sg", "aws_security_group">>,
     <<"load balancer", "aws_lb">>, <<"alb", "aws_lb">>,
     <<"elb", "aws_elb">>,
     <<"route53", "aws_route53_zone">>, <<"dns", "aws_route53_zone">>,
     <<"cloudwatch", "aws_cloudwatch_log_group">>,
     <<"sns", "aws_sns_topic">>,
     <<"sqs", "aws_sqs_queue">>, <<"queue", "aws_sqs_queue">>,
     <<"elasticbeanstalk", "aws_elastic_beanstalk_environment">>,
     <<"beanstalk", "aws_elastic_beanstalk_environment">>,
     <<"ecs", "aws_ecs_cluster">>,
     <<"fargate", "aws_ecs_service">>,
     <<"eks", "aws_eks_cluster">>, <<"kubernetes", "aws_eks_cluster">>}

\* re.search(r'\b' + re.escape(term) + r'\b', s) for a term that starts and
\* ends with a word character
WordSearch(term, s) ==
    \E i \in 1..Len(s) :
        LET e == i + Len(term) - 1
        IN  /\ e <= Len(s)
            /\ SubSeq(s, i, e) = term
            /\ (i = 1 \/ ~IsWordChar(CharAt(s, i - 1)))
            /\ (e = Len(s) \/ ~IsWordChar(CharAt(s, e + 1)))

_detect_prompt_resources(prompt_text) ==
    LET prompt_lower       == Lower(prompt_text)
        explicit_resources == FindAwsIdentifiers(prompt_lower, 1)
    IN  explicit_resources
            \cup {item[2] : item \in {it \in service_map : WordSearch(it[1], prompt_lower)}}

(***************************************************************************)
(* The knowledge-base file.  A line is the text of one JSON document; the  *)
(* model keeps what json.loads makes of it: the decoded object (a function *)
(* from the keys present to their values) or the fact that decoding fails. *)
(***************************************************************************)
\* dict.get(key, default)
Get(obj, key, default) == IF key \in DOMAIN obj THEN obj[key] ELSE default

JsonLine(obj) == [valid |-> TRUE, obj |-> obj]

\* a line json.loads rejects with JSONDecodeError; a blank line is one
BadLine(text) == [valid |-> FALSE, text |-> text]

(***************************************************************************)
(* Graph nodes and the defaultdict(set) containers                         *)
(***************************************************************************)
_snippet_node(snippet_id) == "s:" \o ToString(snippet_id)

_keyword_node(keyword) == "k:" \o keyword

_resource_node(resource) == "r:" \o resource

EmptyDict == [key \in {} |-> {}]

\* d[key].add(item) on a defaultdict(set): the key is created when missing
DictAdd(d, key, item) ==
    [k \in DOMAIN d \cup {key} |->
        IF k = key THEN (IF k \in DOMAIN d THEN d[k] ELSE {}) \cup {item}
        ELSE d[k]]

\* d[key] for each key of keys, read on a defaultdict(set): missing keys are
\* created with an empty set
DictTouch(d, keys) ==
    [k \in DOMAIN d \cup keys |-> IF k \in DOMAIN d THEN d[k] ELSE {}]

\* d.get(key, set())
DictGet(d, key) == IF key \in DOMAIN d THEN d[key] ELSE {}

(***************************************************************************)
(* The keywords of a record                                                *)
(***************************************************************************)
\* the keywords without the components of the underscore-separated ones
\* (lines 89-93 missing)
ExpandKeywordsWhole(keyword_list) ==
    {Lower(Strip(keyword_list[i])) :
        i \in {j \in 1..Len(keyword_list) : keyword_list[j] # ""}}

\* lines 84-93: the keywords of a record, lowercased, with the components
\* of the underscore-separated ones
ExpandKeywords(keyword_list) ==
    LET raw_keywords ==
            {Lower(Strip(keyword_list[i])) :
                i \in {j \in 1..Len(keyword_list) : keyword_list[j] # ""}}
    IN  raw_keywords \cup UNION {Components(kw) : kw \in raw_keywords}

(***************************************************************************)
(* Inputs: the lines a knowledge-base file is made of, the prompts and the *)
(* values of top_k                                                         *)
(***************************************************************************)
\* the greatest number of lines of a knowledge-base file
MaxLines == 2

\* the values of top_k range over -MaxNegTopK..MaxTopK
MaxNegTopK == 1

MaxTopK == 3

\* a complete record: three keywords and a declared resource
S3Line ==
    JsonLine([snippet_name    |-> "Versioned bucket",
              keywords        |-> <<"S3", "bucket", " versioning ">>,
              iac_code        |-> "resource \"aws_s3_bucket\" \"b\" {\n versioning { enabled = true }\n}",
              original_prompt |-> "Create an S3 bucket with versioning"])

\* a record without a code field, with an underscore-separated keyword
LbLine ==
    JsonLine([snippet_name |-> "Balancer",
              keywords     |-> <<"load_balancer", "">>])

\* a record without a keywords field and without a name
VpcLine ==
    JsonLine([iac_code |-> "resource  \"AWS_VPC\" \"main\" {}\nresource \"aws_subnet\" \"a\" {}"])

\* a blank line
BlankLine == BadLine("\n")

LineKinds == {S3Line, LbLine, VpcLine, BlankLine}

RECURSIVE SeqsUpTo(_, _)
SeqsUpTo(S, n) ==
    IF n = 0 THEN {<<>>}
    ELSE LET shorter == SeqsUpTo(S, n - 1)
         IN  shorter \cup {Append(q, x) : q \in {r \in shorter : Len(r) = n - 1},
                                          x \in S}

Files == SeqsUpTo(LineKinds, MaxLines)

Prompts ==
    {"Create an S3 bucket with versioning",
     "balancer",
     "a bucket in my VPC",
     "Tag my BUCKET",
     "quantum teleporter",
     ""}

TopKs == (0 - MaxNegTopK)..MaxTopK

\* the orders in which a process may visit the snippet ids of a set
Orders ==
    {o \in [1..MaxLines -> 0..(MaxLines - 1)] :
        \A i, j \in 1..MaxLines : i # j => o[i] # o[j]}

(***************************************************************************)
(* The text functions, tabulated once over the texts of the inputs (each   *)
(* entry is the value of the function it tabulates)                        *)
(***************************************************************************)
RecordLines == {l \in LineKinds : l.valid}

KeywordsOfList ==
    [keyword_list \in {Get(l.obj, "keywords", <<>>) : l \in RecordLines} |->
        ExpandKeywords(keyword_list)]

ResourcesOfCode ==
    [iac_code \in {Get(l.obj, "iac_code", "") : l \in RecordLines} |->
        _extract_resource_types(iac_code)]

KeywordsOfPrompt == [p \in Prompts |-> _extract_prompt_keywords(p)]

ResourcesOfPrompt == [p \in Prompts |-> _detect_prompt_resources(p)]

(***************************************************************************)
(* load_graph: the body of the loop over the lines of the file             *)
(***************************************************************************)
\* lines 108-113 (and 115-120 with the resource node and index): the edges
\* and the index entries of one snippet, one item after the other
ItemNode(kind, item) ==
    IF kind = "keyword" THEN _keyword_node(item) ELSE _resource_node(item)

\* the edges stored from the snippet node only (line 112 or 119 missing)
RECURSIVE AddEdgesOneWay(_, _, _, _)
AddEdgesOneWay(acc, snippet_id, items, kind) ==
    IF items = {} THEN acc
    ELSE LET item == CHOOSE x \in items : TRUE
         IN  AddEdgesOneWay(
                 [graph |-> DictAdd(acc.graph, _snippet_node(snippet_id),
                                    ItemNode(kind, item)),
                  index |-> DictAdd(acc.index, item, snippet_id),
                  nodes |-> acc.nodes \cup {item}],
                 snippet_id, items \ {item}, kind)

\* the edges stored without the entry of the reverse index (line 113 or
\* 120 missing)
RECURSIVE AddEdgesUnindexed(_, _, _, _)
AddEdgesUnindexed(acc, snippet_id, items, kind) ==
    IF items = {} THEN acc
    ELSE LET item == CHOOSE x \in items : TRUE
             g1   == DictAdd(acc.graph, _snippet_node(snippet_id),
                             ItemNode(kind, item))
             g2   == DictAdd(g1, ItemNode(kind, item), _snippet_node(snippet_id))
         IN  AddEdgesUnindexed([graph |-> g2,
                                index |-> acc.index,
                                nodes |-> acc.nodes \cup {item}],
                               snippet_id, items \ {item}, kind)

RECURSIVE AddEdges(_, _, _, _)
AddEdges(acc, snippet_id, items, kind) ==
    IF items = {} THEN acc
    ELSE LET item == CHOOSE x \in items : TRUE
             g1   == DictAdd(acc.graph, _snippet_node(snippet_id),
                             ItemNode(kind, item))
             g2   == DictAdd(g1, ItemNode(kind, item), _snippet_node(snippet_id))
         IN  AddEdges([graph |-> g2,
                       index |-> DictAdd(acc.index, item, snippet_id),
                       nodes |-> acc.nodes \cup {item}],
                      snippet_id, items \ {item}, kind)

\* the loop body passing over a record without keywords or without code
BuildSnippetComplete(b, snippet) ==
    IF "keywords" \notin DOMAIN snippet \/ "iac_code" \notin DOMAIN snippet
    THEN b
    ELSE
    LET snippet_count  == b.snippet_count
        keywords       == KeywordsOfList[Get(snippet, "keywords", <<>>)]
        resource_types == ResourcesOfCode[Get(snippet, "iac_code", "")]
        graph_snippet  ==
            [snippet_id      |-> snippet_count,
             snippet_name    |-> Get(snippet, "snippet_name",
                                     "Snippet " \o ToString(snippet_count)),
             keywords        |-> keywords,
             resource_types  |-> resource_types,
             iac_code        |-> Get(snippet, "iac_code", ""),
             original_prompt |-> Get(snippet, "original_prompt", "")]
        kw == AddEdges([graph |-> b.graph, index |-> b.keyword_to_snippets,
                        nodes |-> b.keyword_nodes],
                       snippet_count, keywords, "keyword")
        rs == AddEdges([graph |-> kw.graph, index |-> b.resource_to_snippets,
                        nodes |-> b.resource_nodes],
                       snippet_count, resource_types, "resource")
    IN  [snippet_data |->
             [id \in DOMAIN b.snippet_data \cup {snippet_count} |->
                 IF id = snippet_count THEN graph_snippet ELSE b.snippet_data[id]],
         graph                |-> rs.graph,
         keyword_to_snippets  |-> kw.index,
         resource_to_snippets |-> rs.index,
         snippet_count        |-> snippet_count + 1,
         keyword_nodes        |-> kw.nodes,
         resource_nodes       |-> rs.nodes,
         raised               |-> FALSE]

\* lines 82-122: one well-formed line
BuildSnippet(b, snippet) ==
    LET snippet_count  == b.snippet_count
        keywords       == KeywordsOfList[Get(snippet, "keywords", <<>>)]
        resource_types == ResourcesOfCode[Get(snippet, "iac_code", "")]
        graph_snippet  ==
            [snippet_id      |-> snippet_count,
             snippet_name    |-> Get(snippet, "snippet_name",
                                     "Snippet " \o ToString(snippet_count)),
             keywords        |-> keywords,
             resource_types  |-> resource_types,
             iac_code        |-> Get(snippet, "iac_code", ""),
             original_prompt |-> Get(snippet, "original_prompt", "")]
        kw == AddEdges([graph |-> b.graph, index |-> b.keyword_to_snippets,
                        nodes |-> b.keyword_nodes],
                       snippet_count, keywords, "keyword")
        rs == AddEdges([graph |-> kw.graph, index |-> b.resource_to_snippets,
                        nodes |-> b.resource_nodes],
                       snippet_count, resource_types, "resource")
    IN  [snippet_data |->
             [id \in DOMAIN b.snippet_data \cup {snippet_count} |->
                 IF id = snippet_count THEN graph_snippet ELSE b.snippet_data[id]],
         graph                |-> rs.graph,
         keyword_to_snippets  |-> kw.index,
         resource_to_snippets |-> rs.index,
         snippet_count        |-> snippet_count + 1,
         keyword_nodes        |-> kw.nodes,
         resource_nodes       |-> rs.nodes,
         raised               |-> FALSE]

\* lines 80-122: the loop; json.loads raises on the first line it rejects and
\* the loop ends there, with what the earlier lines have written
RECURSIVE ReadLines(_, _, _)
ReadLines(b, lines, i) ==
    IF i > Len(lines) THEN b
    ELSE IF ~lines[i].valid THEN [b EXCEPT !.raised = TRUE]
    ELSE ReadLines(BuildSnippet(b, lines[i].obj), lines, i + 1)

(***************************************************************************)
(* Numbers.  A float of the source is an exact rational [num, den] here,   *)
(* and round(x, n) is the nearest multiple of 10^-n, halves to even, kept  *)
(* as an integer count of 10^-n.                                           *)
(***************************************************************************)
Max(a, b) == IF a >= b THEN a ELSE b

Min(a, b) == IF a <= b THEN a ELSE b

RECURSIVE Gcd(_, _)
Gcd(a, b) == IF b = 0 THEN a ELSE Gcd(b, a % b)

Ratio(n, d) == LET g == Gcd(n, d) IN [num |-> n \div g, den |-> d \div g]

Zero == [num |-> 0, den |-> 1]

RAdd(x, y) == Ratio(x.num * y.den + y.num * x.den, x.den * y.den)

RScale(k, x) == Ratio(k * x.num, x.den)

\* round(scale * x) for a rational x >= 0.  The source rounds a float, which
\* differs from x by a few units in the last place; the two agree unless
\* scale * x is that close to a half.
RoundScaled(scale, x) ==
    LET n == scale * x.num
        q == n \div x.den
        r == n % x.den
    IN  IF 2 * r < x.den THEN q
        ELSE IF 2 * r > x.den THEN q + 1
        ELSE IF q % 2 = 0 THEN q ELSE q + 1

\* sum(len(d[key]) for key in keys)
RECURSIVE SumLen(_, _)
SumLen(d, keys) ==
    IF keys = {} THEN 0
    ELSE LET key == CHOOSE x \in keys : TRUE
         IN  Cardinality(d[key]) + SumLen(d, keys \ {key})

\* round(avg_degree, 2) keeps two decimals
DegreeScale == 100

\* round(total_score, 4) keeps four decimals
ScoreScale == 10000

(***************************************************************************)
(* load_graph                                                              *)
(***************************************************************************)
\* The store argument st is the record of the instance attributes; the
\* outcome of a call is the record of the attributes after it, the
\* exception raised ("none" when the call returns) and the value returned.

\* lines 76-78 and the containers the loop writes to
StartLoad(st) ==
    [snippet_data         |-> st._snippet_data,
     graph                |-> st._graph,
     keyword_to_snippets  |-> st._keyword_to_snippets,
     resource_to_snippets |-> st._resource_to_snippets,
     snippet_count        |-> 0,
     keyword_nodes        |-> {},
     resource_nodes       |-> {},
     raised               |-> FALSE]

\* the sum of the sizes of the neighbour sets, not halved
edge_count_both_ways(graph) == SumLen(graph, DOMAIN graph)

\* line 124: every edge is stored at its two ends
edge_count(graph) == SumLen(graph, DOMAIN graph) \div 2

\* the end of the loop: the JSONDecodeError of a rejected line leaves
\* load_graph, else lines 124-140 compute the statistics and mark the graph
\* built
FinishLoad(st, b) ==
    LET written == [st EXCEPT !._snippet_data         = b.snippet_data,
                              !._graph                = b.graph,
                              !._keyword_to_snippets  = b.keyword_to_snippets,
                              !._resource_to_snippets = b.resource_to_snippets]
    IN
      IF b.raised
      THEN [store |-> written, raised |-> "JSONDecodeError", value |-> <<>>]
      ELSE
        LET snippet_nodes ==
                {_snippet_node(idx) : idx \in DOMAIN b.snippet_data}
            \* line 126 reads self._graph[...] of every snippet node, which
            \* creates the missing ones; it is not evaluated for no snippet
            graph == IF b.snippet_count # 0
                     THEN DictTouch(b.graph, snippet_nodes)
                     ELSE b.graph
            avg_degree ==
                IF b.snippet_count # 0
                THEN Ratio(SumLen(graph, snippet_nodes), b.snippet_count)
                ELSE Zero
            stats == [snippets           |-> b.snippet_count,
                      keywords           |-> Cardinality(b.keyword_nodes),
                      resource_types     |-> Cardinality(b.resource_nodes),
                      edges              |-> edge_count(b.graph),
                      avg_snippet_degree |-> RoundScaled(DegreeScale, avg_degree)]
        IN  [store  |-> [written EXCEPT !._graph = graph,
                                        !._stats = stats,
                                        !._graph_built = TRUE],
             raised |-> "none",
             value  |-> stats]

\* load_graph without the test of _graph_built, numbering the snippets
\* from the size of the snippet table
load_graph_appending(st, kb_exists, kb_lines) ==
    IF ~kb_exists
    THEN [store |-> st, raised |-> "FileNotFoundError", value |-> <<>>]
    ELSE FinishLoad(st,
             ReadLines([StartLoad(st) EXCEPT
                           !.snippet_count = Cardinality(DOMAIN st._snippet_data)],
                       kb_lines, 1))

\* load_graph taking a missing file for an empty one
load_graph_missing_as_empty(st, kb_exists, kb_lines) ==
    IF st._graph_built
    THEN [store |-> st, raised |-> "none", value |-> st._stats]
    ELSE FinishLoad(st, ReadLines(StartLoad(st),
                                  IF kb_exists THEN kb_lines ELSE <<>>, 1))

\* load_graph without the test of _graph_built, building the graph anew
\* from the file on every call
load_graph_rebuilding(st, kb_exists, kb_lines) ==
    IF ~kb_exists
    THEN [store |-> st, raised |-> "FileNotFoundError", value |-> <<>>]
    ELSE LET empty == [st EXCEPT !._graph = EmptyDict,
                                 !._snippet_data = EmptyDict,
                                 !._keyword_to_snippets = EmptyDict,
                                 !._resource_to_snippets = EmptyDict]
         IN  FinishLoad(empty, ReadLines(StartLoad(empty), kb_lines, 1))

load_graph(st, kb_exists, kb_lines) ==
    IF st._graph_built
    THEN [store |-> st, raised |-> "none", value |-> st._stats]
    ELSE IF ~kb_exists
    THEN [store |-> st, raised |-> "FileNotFoundError", value |-> <<>>]
    ELSE FinishLoad(st, ReadLines(StartLoad(st), kb_lines, 1))

(***************************************************************************)
(* Scoring                                                                 *)
(***************************************************************************)
_jaccard_similarity(snippet_items, prompt_items) ==
    IF snippet_items = {} \/ prompt_items = {} THEN Zero
    ELSE LET intersection == Cardinality(snippet_items \cap prompt_items)
             union        == Cardinality(snippet_items \cup prompt_items)
         IN  IF union > 0 THEN Ratio(intersection, union) ELSE Zero

\* the overlap without the intersection
_overlap_score_of_sizes(snippet_items, prompt_items) ==
    IF snippet_items = {} \/ prompt_items = {} THEN Zero
    ELSE Ratio(Cardinality(snippet_items), Cardinality(prompt_items))

_overlap_score(snippet_items, prompt_items) ==
    IF snippet_items = {} \/ prompt_items = {} THEN Zero
    ELSE Ratio(Cardinality(snippet_items \cap prompt_items),
               Cardinality(prompt_items))

\* the connectivity looking the prompt's items up by their names, not by
\* the names of their nodes
_connectivity_score_by_name(graph, snippet_id, prompt_keywords, prompt_resources) ==
    LET neighbors       == DictGet(graph, _snippet_node(snippet_id))
        total_requested == Cardinality(prompt_keywords)
                               + Cardinality(prompt_resources)
        matched_neighbors ==
            Cardinality({k \in prompt_keywords : k \in neighbors})
              + Cardinality({r \in prompt_resources : r \in neighbors})
    IN  IF neighbors = {} THEN Zero
        ELSE IF total_requested = 0 THEN Zero
        ELSE Ratio(matched_neighbors, total_requested)

\* the connectivity normalised by the number of neighbours of the snippet,
\* which the comment at lines 344-345 rules out
_connectivity_score_per_neighbor(graph, snippet_id, prompt_keywords, prompt_resources) ==
    LET neighbors       == DictGet(graph, _snippet_node(snippet_id))
        total_requested == Cardinality(prompt_keywords)
                               + Cardinality(prompt_resources)
        matched_neighbors ==
            Cardinality({k \in prompt_keywords : _keyword_node(k) \in neighbors})
              + Cardinality({r \in prompt_resources :
                                _resource_node(r) \in neighbors})
    IN  IF neighbors = {} THEN Zero
        ELSE IF total_requested = 0 THEN Zero
        ELSE Ratio(matched_neighbors, Cardinality(neighbors))

_connectivity_score(graph, snippet_id, prompt_keywords, prompt_resources) ==
    LET neighbors       == DictGet(graph, _snippet_node(snippet_id))
        total_requested == Cardinality(prompt_keywords)
                               + Cardinality(prompt_resources)
        matched_neighbors ==
            Cardinality({k \in prompt_keywords : _keyword_node(k) \in neighbors})
              + Cardinality({r \in prompt_resources :
                                _resource_node(r) \in neighbors})
    IN  IF neighbors = {} THEN Zero
        ELSE IF total_requested = 0 THEN Zero
        ELSE Ratio(matched_neighbors, total_requested)

\* the total score of the keywords alone, without the terms of the
\* resources and of the connectivity
TotalScore100KeywordsOnly(kw_jaccard, kw_overlap, resource_jaccard, resource_overlap, connectivity) ==
    RScale(5, RAdd(RScale(6, kw_jaccard), RScale(4, kw_overlap)))

\* lines 174-189, with the decimal weights written in tenths: the result
\* is total_score times 100
TotalScore100(kw_jaccard, kw_overlap, resource_jaccard, resource_overlap, connectivity) ==
    LET keyword_score10  == RAdd(RScale(6, kw_jaccard), RScale(4, kw_overlap))
        resource_score10 == RAdd(RScale(7, resource_jaccard),
                                 RScale(3, resource_overlap))
    IN  RAdd(RAdd(RScale(5, keyword_score10), RScale(3, resource_score10)),
             RScale(20, connectivity))

\* total_score of a snippet for a prompt (lines 171-189), times 100
SnippetTotalScore100(st, snippet_id, prompt_keywords, prompt_resources) ==
    LET snippet == st._snippet_data[snippet_id]
    IN  TotalScore100(
            _jaccard_similarity(snippet.keywords, prompt_keywords),
            _overlap_score(snippet.keywords, prompt_keywords),
            _jaccard_similarity(snippet.resource_types, prompt_resources),
            _overlap_score(snippet.resource_types, prompt_resources),
            _connectivity_score(st._graph, snippet_id, prompt_keywords,
                                prompt_resources))

\* round(total_score, 4), as a count of 10^-4
RoundedScore(st, snippet_id, prompt_keywords, prompt_resources) ==
    RoundScaled(ScoreScale \div 100,
                SnippetTotalScore100(st, snippet_id, prompt_keywords,
                                     prompt_resources))

(***************************************************************************)
(* sorted() of a set of str: the order of the code points, for the ASCII   *)
(* characters of identifiers                                               *)
(***************************************************************************)
AsciiOrder ==
    " -./0123456789:ABCDEFGHIJKLMNOPQRSTUVWXYZ_abcdefghijklmnopqrstuvwxyz"

Ord(c) == CHOOSE i \in 1..Len(AsciiOrder) : CharAt(AsciiOrder, i) = c

RECURSIVE StrLess(_, _)
StrLess(a, b) ==
    IF b = "" THEN FALSE
    ELSE IF a = "" THEN TRUE
    ELSE IF Head(a) = Head(b) THEN StrLess(Tail(a), Tail(b))
    ELSE Ord(Head(a)) < Ord(Head(b))

RECURSIVE Sorted(_)
Sorted(items) ==
    IF items = {} THEN <<>>
    ELSE LET least == CHOOSE x \in items : \A y \in items \ {x} : StrLess(x, y)
         IN  <<least>> \o Sorted(items \ {least})

SortedOf ==
    [items \in {KeywordsOfList[kl] : kl \in DOMAIN KeywordsOfList}
                 \cup {ResourcesOfCode[c] : c \in DOMAIN ResourcesOfCode} |->
        Sorted(items)]

(***************************************************************************)
(* query                                                                   *)
(***************************************************************************)
\* the snippets the keyword index gives, without those of the resource index
\* (lines 163-164 missing)
IndexedSnippetsByKeyword(st, prompt_keywords, prompt_resources) ==
    UNION {DictGet(st._keyword_to_snippets, keyword) :
               keyword \in prompt_keywords}

\* lines 160-164: the snippets the reverse indices give for the prompt
IndexedSnippets(st, prompt_keywords, prompt_resources) ==
    UNION {DictGet(st._keyword_to_snippets, keyword) :
               keyword \in prompt_keywords}
      \cup UNION {DictGet(st._resource_to_snippets, resource) :
                      resource \in prompt_resources}

\* the candidates without the fallback to all snippets
CandidateSnippetsNoFallback(st, prompt_keywords, prompt_resources) ==
    IndexedSnippets(st, prompt_keywords, prompt_resources)

\* lines 160-167: the snippets to score, all of them when the indices
\* give none
CandidateSnippets(st, prompt_keywords, prompt_resources) ==
    LET candidate_snippets ==
            IndexedSnippets(st, prompt_keywords, prompt_resources)
    IN  IF candidate_snippets = {}
        THEN DOMAIN st._snippet_data
        ELSE candidate_snippets

\* "for snippet_id in candidate_snippets": a set of int is iterated in the
\* order of its hash table, which the language leaves open (CPython visits
\* {1, 8} as 8, 1).  order is the order in which this process visits the
\* ids; a set is visited in that order restricted to its members.
IterationOrder(order, ids) ==
    LET Member(id) == id \in ids IN SelectSeq(order, Member)

\* the sort without reverse=True
RECURSIVE SortByScoreAscending(_)
SortByScoreAscending(items) ==
    IF items = <<>> THEN <<>>
    ELSE LET first == CHOOSE i \in 1..Len(items) :
                          /\ \A j \in 1..Len(items) : items[j].score >= items[i].score
                          /\ \A j \in 1..(i - 1) : items[j].score > items[i].score
         IN  <<items[first]>>
                 \o SortByScoreAscending(
                        SubSeq(items, 1, first - 1)
                            \o SubSeq(items, first + 1, Len(items)))

\* list.sort(key=score, reverse=True) is stable: the first of the items
\* with the greatest score comes first, then the rest likewise
RECURSIVE SortByScoreDescending(_)
SortByScoreDescending(items) ==
    IF items = <<>> THEN <<>>
    ELSE LET first == CHOOSE i \in 1..Len(items) :
                          /\ \A j \in 1..Len(items) : items[j].score <= items[i].score
                          /\ \A j \in 1..(i - 1) : items[j].score < items[i].score
         IN  <<items[first]>>
                 \o SortByScoreDescending(
                        SubSeq(items, 1, first - 1)
                            \o SubSeq(items, first + 1, Len(items)))

\* ranked[: n] for n >= 0
Slice(items, n) == SubSeq(items, 1, Min(n, Len(items)))

\* ranked[: n] for any int n: a negative n counts from the end
SliceFrom(items, n) ==
    IF n >= 0 THEN SubSeq(items, 1, Min(n, Len(items)))
    ELSE SubSeq(items, 1, Max(0, Len(items) + n))

\* query returning ranked[: top_k], without max(1, top_k)
QueryBuiltUncoerced(st, order, prompt_text, top_k) ==
    LET prompt_keywords  == KeywordsOfPrompt[prompt_text]
        prompt_resources == ResourcesOfPrompt[prompt_text]
        visited == IterationOrder(order,
                       CandidateSnippets(st, prompt_keywords, prompt_resources))
        ranked  ==
            [i \in 1..Len(visited) |->
                LET snippet == st._snippet_data[visited[i]]
                IN  [snippet_id      |-> visited[i],
                     snippet_name    |-> snippet.snippet_name,
                     score           |-> RoundedScore(st, visited[i],
                                             prompt_keywords, prompt_resources),
                     keywords        |-> SortedOf[snippet.keywords],
                     resource_types  |-> SortedOf[snippet.resource_types],
                     iac_code        |-> snippet.iac_code,
                     original_prompt |-> snippet.original_prompt]]
    IN  SliceFrom(SortByScoreDescending(ranked), top_k)

\* lines 157-204 on a store whose graph is built
QueryBuilt(st, order, prompt_text, top_k) ==
    LET prompt_keywords  == KeywordsOfPrompt[prompt_text]
        prompt_resources == ResourcesOfPrompt[prompt_text]
        visited == IterationOrder(order,
                       CandidateSnippets(st, prompt_keywords, prompt_resources))
        ranked  ==
            [i \in 1..Len(visited) |->
                LET snippet == st._snippet_data[visited[i]]
                IN  [snippet_id      |-> visited[i],
                     snippet_name    |-> snippet.snippet_name,
                     score           |-> RoundedScore(st, visited[i],
                                             prompt_keywords, prompt_resources),
                     keywords        |-> SortedOf[snippet.keywords],
                     resource_types  |-> SortedOf[snippet.resource_types],
                     iac_code        |-> snippet.iac_code,
                     original_prompt |-> snippet.original_prompt]]
    IN  Slice(SortByScoreDescending(ranked), Max(1, top_k))

\* dict.pop(key, None) for each key of keys
DictPop(d, keys) == [k \in DOMAIN d \ keys |-> d[k]]

\* query taking the index entries of the prompt out of the reverse indices
\* (pop for get in lines 162 and 164)
query_popping(st, order, kb_exists, kb_lines, prompt_text, top_k) ==
    LET loaded == IF ~st._graph_built
                  THEN load_graph(st, kb_exists, kb_lines)
                  ELSE [store |-> st, raised |-> "none", value |-> st._stats]
    IN  IF loaded.raised # "none"
        THEN [store |-> loaded.store, raised |-> loaded.raised, value |-> <<>>]
        ELSE [store  |-> [loaded.store EXCEPT
                             !._keyword_to_snippets =
                                 DictPop(@, KeywordsOfPrompt[prompt_text]),
                             !._resource_to_snippets =
                                 DictPop(@, ResourcesOfPrompt[prompt_text])],
              raised |-> "none",
              value  |-> QueryBuilt(loaded.store, order, prompt_text, top_k)]

\* query reading the neighbours of the prompt's keyword nodes with
\* self._graph[...], which creates the nodes the graph does not have
query_touching(st, order, kb_exists, kb_lines, prompt_text, top_k) ==
    LET loaded == IF ~st._graph_built
                  THEN load_graph(st, kb_exists, kb_lines)
                  ELSE [store |-> st, raised |-> "none", value |-> st._stats]
    IN  IF loaded.raised # "none"
        THEN [store |-> loaded.store, raised |-> loaded.raised, value |-> <<>>]
        ELSE [store  |-> [loaded.store EXCEPT
                             !._graph =
                                 DictTouch(@, {_keyword_node(keyword) :
                                     keyword \in KeywordsOfPrompt[prompt_text]})],
              raised |-> "none",
              value  |-> QueryBuilt(loaded.store, order, prompt_text, top_k)]

\* query without lines 154-155
query_without_load(st, order, kb_exists, kb_lines, prompt_text, top_k) ==
    [store  |-> st,
     raised |-> "none",
     value  |-> QueryBuilt(st, order, prompt_text, top_k)]

\* query: lines 154-155 load the graph first when it is not built, and an
\* exception of load_graph leaves query
query(st, order, kb_exists, kb_lines, prompt_text, top_k) ==
    LET loaded == IF ~st._graph_built
                  THEN load_graph(st, kb_exists, kb_lines)
                  ELSE [store |-> st, raised |-> "none", value |-> st._stats]
    IN  IF loaded.raised # "none"
        THEN [store |-> loaded.store, raised |-> loaded.raised, value |-> <<>>]
        ELSE [store  |-> loaded.store,
              raised |-> "none",
              value  |-> QueryBuilt(loaded.store, order, prompt_text, top_k)]

\* get_statistics
get_statistics(st, kb_exists, kb_lines) ==
    LET loaded == IF ~st._graph_built
                  THEN load_graph(st, kb_exists, kb_lines)
                  ELSE [store |-> st, raised |-> "none", value |-> st._stats]
    IN  IF loaded.raised # "none"
        THEN [store |-> loaded.store, raised |-> loaded.raised, value |-> <<>>]
        ELSE [store |-> loaded.store, raised |-> "none",
              value |-> loaded.store._stats]

(***************************************************************************)
(* The keyword store: RAGStore (rag/store.py), the functions of            *)
(* pseudo_rag_store.py and keyword_store_retrieve                          *)
(* (examples/graph_rag_comparison.py).  The keywords of a record are a     *)
(* list of str, as the builder of the knowledge base writes them.          *)
(***************************************************************************)
\* a cache attribute: None, or the list it holds
None == [is_none |-> TRUE, list |-> <<>>]

Cached(list) == [is_none |-> FALSE, list |-> list]

\* store.py lines 35-41
FallbackSnippets ==
    <<[keywords     |-> <<"ec2", "instance">>,
       snippet_name |-> "Fallback EC2 Example",
       iac_code     |-> "resource \"aws_instance\" \"fallback\" {\n  ami = \"ami-0abcdef1234567890\"\n  instance_type = \"t2.micro\"\n}"]>>

\* pseudo_rag_store.py lines 18-23
PseudoFallbackSnippets ==
    <<[keywords     |-> <<"ec2", "instance">>,
       snippet_name |-> "Fallback EC2 Example",
       iac_code     |-> "resource \"aws_instance\" \"fallback\" {\n  ami = \"ami-...\"\n  instance_type = \"t2.micro\"\n}"]>>

\* lines 44-49: the objects of the lines json.loads accepts, in the order of
\* the file; a rejected line is reported and passed over
RECURSIVE DecodedLines(_)
DecodedLines(lines) ==
    IF lines = <<>> THEN <<>>
    ELSE (IF Head(lines).valid THEN <<Head(lines).obj>> ELSE <<>>)
             \o DecodedLines(Tail(lines))

\* the loader taking a missing file for an empty one
load_snippets_missing_as_empty(cache, kb_exists, kb_lines) ==
    IF ~cache.is_none
    THEN [cache |-> cache, raised |-> "none", value |-> cache.list]
    ELSE LET snippets == IF kb_exists THEN DecodedLines(kb_lines) ELSE <<>>
         IN  [cache |-> Cached(snippets), raised |-> "none", value |-> snippets]

\* RAGStore.load_snippets: the outcome is the cache after the call, the
\* exception raised (none is) and the list returned
load_snippets(cache, kb_exists, kb_lines) ==
    IF ~cache.is_none
    THEN [cache |-> cache, raised |-> "none", value |-> cache.list]
    ELSE IF ~kb_exists
    THEN [cache  |-> Cached(FallbackSnippets), raised |-> "none",
          value  |-> FallbackSnippets]
    ELSE LET snippets == DecodedLines(kb_lines)
         IN  [cache |-> Cached(snippets), raised |-> "none", value |-> snippets]

\* pseudo_rag_store.load_rag_snippets_from_file, on the module's cache
load_rag_snippets_from_file(cache, kb_exists, kb_lines) ==
    IF ~cache.is_none
    THEN [cache |-> cache, raised |-> "none", value |-> cache.list]
    ELSE IF ~kb_exists
    THEN [cache  |-> Cached(PseudoFallbackSnippets), raised |-> "none",
          value  |-> PseudoFallbackSnippets]
    ELSE LET snippets == DecodedLines(kb_lines)
         IN  [cache |-> Cached(snippets), raised |-> "none", value |-> snippets]

\* sub in s, for str
Contains(s, sub) ==
    \E i \in 0..(Len(s) - Len(sub)) : SubSeq(s, i + 1, i + Len(sub)) = sub

\* sorted(detect_resources(text))
detect_resources(text) ==
    IF text = "" THEN {} ELSE FindAwsIdentifiers(Lower(text), 1)

\* the prompts and the generated codes of the calls
KeywordPrompts ==
    {"Create an S3 bucket with versioning",
     "launch an EC2 Instance",
     "quantum teleporter",
     ""}

GeneratedCodes == {"", "resource \"aws_s3_bucket\" \"b\" {}"}

\* The text functions of the keyword store, tabulated once over the texts
\* of the inputs (each entry is the value of the function it tabulates)
SnippetObjects ==
    {l.obj : l \in RecordLines}
        \cup {FallbackSnippets[1], PseudoFallbackSnippets[1]}

KeywordsOfObjects ==
    UNION {{Get(o, "keywords", <<>>)[j] :
                j \in 1..Len(Get(o, "keywords", <<>>))} : o \in SnippetObjects}

\* text.lower()
LowerOf ==
    [text \in KeywordPrompts \cup GeneratedCodes \cup KeywordsOfObjects |->
        Lower(text)]

\* the prompts and codes in which keyword.lower() occurs, once lowercased
OccursIn ==
    [keyword \in KeywordsOfObjects |->
        {text \in KeywordPrompts \cup GeneratedCodes :
            Contains(LowerOf[text], LowerOf[keyword])}]

\* sorted(detect_resources(snippet.get("iac_code", "")))
DetectedResources ==
    [iac_code \in {Get(o, "iac_code", "") : o \in SnippetObjects} |->
        Sorted(detect_resources(iac_code))]

\* sep.join(items)
RECURSIVE Join(_, _)
Join(sep, items) ==
    IF items = <<>> THEN ""
    ELSE IF Len(items) = 1 THEN items[1]
    ELSE items[1] \o sep \o Join(sep, Tail(items))

\* any(keyword.lower() in text_lower for keyword in item_keywords), where
\* text_lower is text.lower()
AnyKeywordIn(item_keywords, text) ==
    \E j \in 1..Len(item_keywords) : text \in OccursIn[item_keywords[j]]

\* the text made of the snippets with a keyword in the prompt, whatever the
\* generated code (code_match of line 84 missing)
RelevantSnippetsOfPrompt(all_snippets, prompt_text, generated_code) ==
    LET Matches(item) ==
            AnyKeywordIn(Get(item, "keywords", <<>>), prompt_text)
        Reference(item) ==
            "# Reference: " \o Get(item, "snippet_name", "Untitled Snippet")
                \o "\n" \o Get(item, "iac_code", "")
        matching == SelectSeq(all_snippets, Matches)
        relevant_snippets_data ==
            [i \in 1..Len(matching) |-> Reference(matching[i])]
    IN  IF all_snippets = <<>> THEN ""
        ELSE IF relevant_snippets_data = <<>> THEN ""
        ELSE "\n\n---\nRelevant IaC Reference Snippets:\n"
                 \o Join("\n\n", relevant_snippets_data)

\* store.py lines 71-93 (pseudo_rag_store.py lines 44-65): the text made of
\* the snippets with a keyword in the prompt or in the generated code
RelevantSnippets(all_snippets, prompt_text, generated_code) ==
    LET code_lower == IF generated_code # "" THEN LowerOf[generated_code] ELSE ""
        Matches(item) ==
            LET item_keywords == Get(item, "keywords", <<>>)
            IN  \/ AnyKeywordIn(item_keywords, prompt_text)
                \/ (code_lower # "" /\ AnyKeywordIn(item_keywords, generated_code))
        Reference(item) ==
            "# Reference: " \o Get(item, "snippet_name", "Untitled Snippet")
                \o "\n" \o Get(item, "iac_code", "")
        matching == SelectSeq(all_snippets, Matches)
        relevant_snippets_data ==
            [i \in 1..Len(matching) |-> Reference(matching[i])]
    IN  IF all_snippets = <<>> THEN ""
        ELSE IF relevant_snippets_data = <<>> THEN ""
        ELSE "\n\n---\nRelevant IaC Reference Snippets:\n"
                 \o Join("\n\n", relevant_snippets_data)

\* RAGStore.get_relevant_snippets
get_relevant_snippets(cache, kb_exists, kb_lines, prompt_text, generated_code) ==
    LET loaded == load_snippets(cache, kb_exists, kb_lines)
    IN  [cache  |-> loaded.cache,
         raised |-> "none",
         value  |-> RelevantSnippets(loaded.value, prompt_text, generated_code)]

\* pseudo_rag_store.get_relevant_snippets
pseudo_get_relevant_snippets(cache, kb_exists, kb_lines, prompt_text, generated_code) ==
    LET loaded == load_rag_snippets_from_file(cache, kb_exists, kb_lines)
    IN  [cache  |-> loaded.cache,
         raised |-> "none",
         value  |-> RelevantSnippets(loaded.value, prompt_text, generated_code)]

\* RAGStore.get_statistics.  most_common_keywords is the first ten items
\* of a set of str in the order of its hash table, which the language
\* leaves open: common is the set of the items the process comes to list,
\* one of MostCommonChoices.
RECURSIVE SumOfLengths(_)
SumOfLengths(lists) ==
    IF lists = <<>> THEN 0 ELSE Len(Head(lists)) + SumOfLengths(Tail(lists))

MostCommonLimit == 10

\* lines 106-113: the keywords of all snippets, lowercased
AllKeywords(snippets) ==
    UNION {{LowerOf[Get(snippets[i], "keywords", <<>>)[j]] :
                j \in 1..Len(Get(snippets[i], "keywords", <<>>))} :
              i \in 1..Len(snippets)}

\* list(all_keywords)[:10], as the sets of items it may hold
MostCommonChoices(all_keywords) ==
    IF Cardinality(all_keywords) <= MostCommonLimit THEN {all_keywords}
    ELSE {some \in SUBSET all_keywords : Cardinality(some) = MostCommonLimit}

RAGStore_get_statistics(cache, kb_exists, kb_lines, common) ==
    LET loaded   == load_snippets(cache, kb_exists, kb_lines)
        snippets == loaded.value
        keyword_lists ==
            [i \in 1..Len(snippets) |-> Get(snippets[i], "keywords", <<>>)]
        all_keywords == AllKeywords(snippets)
    IN  [cache  |-> loaded.cache,
         raised |-> "none",
         value  |->
             IF snippets = <<>>
             THEN [total_snippets |-> 0, unique_keywords |-> 0,
                   avg_keywords_per_snippet |-> Zero]
             ELSE [total_snippets |-> Len(snippets),
                   unique_keywords |-> Cardinality(all_keywords),
                   avg_keywords_per_snippet |->
                       Ratio(SumOfLengths(keyword_lists), Len(keyword_lists)),
                   most_common_keywords |-> common]]

\* graph_rag_comparison.py lines 41-59: the entry of snippet snippet_id, or
\* <<>> when the loop passes over it
KeywordMatch(snippets, snippet_id, prompt_text) ==
    LET snippet  == snippets[snippet_id + 1]
        keywords == Get(snippet, "keywords", <<>>)
        snippet_keywords == [j \in 1..Len(keywords) |-> LowerOf[keywords[j]]]
        matched ==
            {snippet_keywords[j] :
                j \in {k \in 1..Len(keywords) : prompt_text \in OccursIn[keywords[k]]}}
    IN  IF snippet_keywords = <<>> \/ matched = {} THEN <<>>
        ELSE <<[snippet_id     |-> snippet_id,
                snippet_name   |-> Get(snippet, "snippet_name",
                                       "Snippet " \o ToString(snippet_id)),
                keywords       |-> snippet_keywords,
                resource_types |-> DetectedResources[Get(snippet, "iac_code", "")],
                iac_code       |-> Get(snippet, "iac_code", ""),
                score          |-> RoundScaled(ScoreScale,
                                       Ratio(Cardinality(matched),
                                             Max(Len(snippet_keywords), 1)))]>>

RECURSIVE KeywordMatches(_, _, _)
KeywordMatches(snippets, snippet_id, prompt_text) ==
    IF snippet_id >= Len(snippets) THEN <<>>
    ELSE KeywordMatch(snippets, snippet_id, prompt_text)
             \o KeywordMatches(snippets, snippet_id + 1, prompt_text)

\* lines 61-73: the entry of the first snippet, with the score 0.0
FirstSnippetEntry(snippets) ==
    LET first_snippet == snippets[1]
    IN  [snippet_id     |-> 0,
         snippet_name   |-> Get(first_snippet, "snippet_name", "Snippet 0"),
         keywords       |-> Get(first_snippet, "keywords", <<>>),
         resource_types |-> DetectedResources[Get(first_snippet, "iac_code", "")],
         iac_code       |-> Get(first_snippet, "iac_code", ""),
         score          |-> 0]

\* keyword_store_retrieve without lines 61-73
keyword_store_retrieve_no_fallback(cache, kb_exists, kb_lines, prompt_text, top_k) ==
    LET loaded   == load_snippets(cache, kb_exists, kb_lines)
        matches  == KeywordMatches(loaded.value, 0, prompt_text)
    IN  [cache  |-> loaded.cache,
         raised |-> "none",
         value  |-> Slice(SortByScoreDescending(matches), Max(1, top_k))]

\* keyword_store_retrieve
keyword_store_retrieve(cache, kb_exists, kb_lines, prompt_text, top_k) ==
    LET loaded   == load_snippets(cache, kb_exists, kb_lines)
        snippets == loaded.value
        matched  == KeywordMatches(snippets, 0, prompt_text)
        matches  == IF matched = <<>> /\ snippets # <<>>
                    THEN <<FirstSnippetEntry(snippets)>>
                    ELSE matched
    IN  [cache  |-> loaded.cache,
         raised |-> "none",
         value  |-> Slice(SortByScoreDescending(matches), Max(1, top_k))]

(***************************************************************************)
(* IaCGenerator (core/generator.py): the texts forward makes.  The         *)
(* predictors and the validator are outside the program: what they answer  *)
(* is an input.                                                            *)
(***************************************************************************)
\* the greatest max_retries of a generator
MaxRetries == 2

\* str.replace(old, new), for a non-empty old
RECURSIVE Replace(_, _, _)
Replace(s, old, new) ==
    IF Len(s) < Len(old) THEN s
    ELSE IF SubSeq(s, 1, Len(old)) = old
    THEN new \o Replace(SubSeq(s, Len(old) + 1, Len(s)), old, new)
    ELSE SubSeq(s, 1, 1) \o Replace(Tail(s), old, new)

\* the backquote, which a string of this module cannot hold, is written ^
\* in the texts of the predictors
Fence == "^^^"

\* lines 130-134
_clean_iac_output(raw_output) ==
    IF raw_output = "" THEN ""
    ELSE Strip(Replace(Replace(raw_output, Fence \o "hcl", ""), Fence, ""))

\* what a predictor answers: nothing, a fenced block, an empty fenced block,
\* bare code
LlmOutputs ==
    {"",
     "^^^hcl\nresource \"aws_s3_bucket\" \"b\" {}\n^^^",
     "^^^\n^^^",
     "resource \"aws_s3_bucket\" \"b\" {}"}

CleanedOutput == [raw_output \in LlmOutputs |-> _clean_iac_output(raw_output)]

\* what the validator answers (validator.py lines 118, 144, 146)
ValidatorVerdicts ==
    {[is_valid |-> TRUE,  message |-> "Valid Terraform."],
     [is_valid |-> FALSE, message |-> "Terraform command timed out."],
     [is_valid |-> FALSE,
      message  |-> "Terraform CLI not found. Please ensure it's installed and in your PATH."]}

\* line 106
EmptyOutputMessage == "LLM returned empty or malformed IaC code."

\* line 59
NoRagSnippets == "No RAG snippets provided."

\* the length of the summary of the context in the log (line 69)
SummaryLength == 100

\* lines 63-70: the log of the first attempt, before the predictor answers
InitialStepLog(prompt_text, rag_context_for_llm) ==
    [attempt |-> 1,
     type    |-> "initial_generation",
     rag_context_used_summary |->
         IF rag_context_for_llm # NoRagSnippets
         THEN SubSeq(rag_context_for_llm, 1,
                     Min(SummaryLength, Len(rag_context_for_llm))) \o "..."
         ELSE "None",
     prompt_to_llm |-> prompt_text]

\* lines 63, 81-82: the log of a later attempt, numbered from 1
RetryStepLog(number, feedback) ==
    [attempt |-> number,
     type    |-> "retry_generation",
     error_feedback_to_llm |-> feedback]

\* lines 85-90
ErrorMessageWithHints(feedback, rag_info_for_retry) ==
    "Error encountered: " \o feedback \o "\n"
        \o (IF rag_info_for_retry # ""
            THEN "Consider these RAG snippets for correction:\n"
                     \o rag_info_for_retry \o "\n"
            ELSE "No specific RAG snippets found for this error, focus on the error message and original prompt.\n")
        \o "Please provide the corrected Terraform code."

\* a record with one more field, or with that field set anew
WithField(log, key, val) ==
    [k \in DOMAIN log \cup {key} |-> IF k = key THEN val ELSE log[k]]

(***************************************************************************)
(* State                                                                   *)
(***************************************************************************)
VARIABLES
    kb_exists,              \* os.path.exists(self.kb_file)
    kb_lines,               \* the lines of the file self.kb_file
    hashOrder,              \* the order in which sets of snippet ids are visited
    _graph_built,
    _graph,
    _snippet_data,
    _keyword_to_snippets,
    _resource_to_snippets,
    _stats,
    _snippets_cache,        \* of the RAGStore instance
    _RAG_SNIPPETS_CACHE,    \* of the module pseudo_rag_store
    other_kb_file,          \* the file of a second path: exists and lines
    other_store,            \* the attributes of the GraphRAGStore on it
    other_snippets_cache,   \* _snippets_cache of the RAGStore on it
    max_retries,            \* of the IaCGenerator instance
    history,                \* of the IaCGenerator instance
    pc,                     \* the position of forward
    prompt,                 \* the locals of forward: its argument,
    attempt,
    generated_iac,
    error_feedback,
    current_step_log,
    llm_calls,              \* the calls of the predictors forward has made,
                            \* each with its arguments
    ret,                    \* the last call: its name, its arguments, the
                            \* file it found and its outcome
    seen                    \* an earlier query the client has kept to compare

storeVars ==
    <<_graph_built, _graph, _snippet_data, _keyword_to_snippets,
      _resource_to_snippets, _stats>>

cacheVars == <<_snippets_cache, _RAG_SNIPPETS_CACHE>>

envVars == <<kb_exists, kb_lines, hashOrder>>

otherVars == <<other_kb_file, other_store, other_snippets_cache>>

genVars ==
    <<max_retries, history, pc, prompt, attempt, generated_iac, error_feedback,
      current_step_log, llm_calls>>

vars == <<kb_exists, kb_lines, hashOrder, _graph_built, _graph, _snippet_data,
          _keyword_to_snippets, _resource_to_snippets, _stats,
          _snippets_cache, _RAG_SNIPPETS_CACHE, other_kb_file, other_store,
          other_snippets_cache, max_retries, history, pc, prompt, attempt,
          generated_iac, error_feedback, current_step_log, llm_calls, ret,
          seen>>

\* the attributes of the GraphRAGStore instance
Store ==
    [_graph_built          |-> _graph_built,
     _graph                |-> _graph,
     _snippet_data         |-> _snippet_data,
     _keyword_to_snippets  |-> _keyword_to_snippets,
     _resource_to_snippets |-> _resource_to_snippets,
     _stats                |-> _stats]

\* GraphRAGStore.__init__
NewStore ==
    [_graph_built          |-> FALSE,
     _graph                |-> EmptyDict,
     _snippet_data         |-> EmptyDict,
     _keyword_to_snippets  |-> EmptyDict,
     _resource_to_snippets |-> EmptyDict,
     _stats                |-> EmptyDict]

SetStore(st) ==
    /\ _graph_built' = st._graph_built
    /\ _graph' = st._graph
    /\ _snippet_data' = st._snippet_data
    /\ _keyword_to_snippets' = st._keyword_to_snippets
    /\ _resource_to_snippets' = st._resource_to_snippets
    /\ _stats' = st._stats

\* the default path of the knowledge base
RAG_KB_FILE == "rag_kb.jsonl"

\* the path of the second knowledge base
OtherPath == "other_kb.jsonl"

\* the knowledge-base file as a call finds it
KbFile == [path |-> RAG_KB_FILE, exists |-> kb_exists, lines |-> kb_lines]

\* the second knowledge base as a call finds it
OtherKbFile ==
    [path |-> OtherPath, exists |-> other_kb_file.exists,
     lines |-> other_kb_file.lines]

\* no file at the second path and no store made for it
InitOther ==
    /\ other_kb_file = [exists |-> FALSE, lines |-> <<>>]
    /\ other_store = NewStore
    /\ other_snippets_cache = None

\* IaCGenerator.__init__, and forward not called yet
InitGenerator(retries) ==
    /\ max_retries = retries
    /\ history = <<>>
    /\ pc = "idle"
    /\ prompt = ""
    /\ attempt = 0
    /\ generated_iac = ""
    /\ error_feedback = ""
    /\ current_step_log = <<>>
    /\ llm_calls = <<>>

NoCall == [op |-> "new", args |-> <<>>, kb_file |-> <<>>,
           built_before |-> FALSE, raised |-> "none", value |-> <<>>]

Init ==
    /\ kb_exists \in BOOLEAN
    /\ kb_lines \in Files
    /\ ~kb_exists => kb_lines = <<>>
    /\ hashOrder \in Orders
    \* the place of an id that no line of the file can get is immaterial
    /\ \A i \in (Len(kb_lines) + 1)..MaxLines : hashOrder[i] = i - 1
    /\ _graph_built = NewStore._graph_built
    /\ _graph = NewStore._graph
    /\ _snippet_data = NewStore._snippet_data
    /\ _keyword_to_snippets = NewStore._keyword_to_snippets
    /\ _resource_to_snippets = NewStore._resource_to_snippets
    /\ _stats = NewStore._stats
    /\ _snippets_cache = None
    /\ _RAG_SNIPPETS_CACHE = None
    /\ InitOther
    /\ InitGenerator(1)
    /\ ret = NoCall
    /\ seen = NoCall

(***************************************************************************)
(* The calls a client makes on the store                                   *)
(***************************************************************************)
Return(op, args, out) ==
    ret' = [op |-> op, args |-> args, kb_file |-> KbFile,
            built_before |-> _graph_built,
            raised |-> out.raised, value |-> out.value]

LoadGraph ==
    LET out == load_graph(Store, kb_exists, kb_lines)
    IN  /\ SetStore(out.store)
        /\ Return("load_graph", <<>>, out)
        /\ UNCHANGED <<envVars, otherVars, genVars, cacheVars, seen>>

QueryCall(prompt_text, top_k) ==
    LET out == query(Store, hashOrder, kb_exists, kb_lines, prompt_text, top_k)
    IN  /\ SetStore(out.store)
        /\ Return("query", <<prompt_text, top_k>>, out)
        /\ UNCHANGED <<envVars, otherVars, genVars, cacheVars>>

Query(prompt_text, top_k) ==
    /\ QueryCall(prompt_text, top_k)
    /\ UNCHANGED seen

GetStatistics ==
    LET out == get_statistics(Store, kb_exists, kb_lines)
    IN  /\ SetStore(out.store)
        /\ Return("get_statistics", <<>>, out)
        /\ UNCHANGED <<envVars, otherVars, genVars, cacheVars, seen>>

Next ==
    \/ LoadGraph
    \/ \E prompt_text \in Prompts, top_k \in TopKs : Query(prompt_text, top_k)
    \/ GetStatistics

Spec == Init /\ [][Next]_vars

(***************************************************************************)
(* A client that keeps the outcome of some of its queries, to compare them *)
(* with the outcome of later ones                                          *)
(***************************************************************************)
RepeatPrompts == {"Create an S3 bucket with versioning", "quantum teleporter"}

RepeatTopKs == {1, MaxTopK}

QueryRemember(prompt_text, top_k) ==
    /\ QueryCall(prompt_text, top_k)
    /\ seen' \in {seen, ret'}

NextRepeat ==
    \/ LoadGraph
    \/ \E prompt_text \in RepeatPrompts, top_k \in RepeatTopKs :
           QueryRemember(prompt_text, top_k)
    \/ GetStatistics

SpecRepeat == Init /\ [][NextRepeat]_vars

(***************************************************************************)
(* The calls a client makes on the keyword store                           *)
(***************************************************************************)
\* the outcome of a call on a cache: built_before tells whether the cache
\* was set when the call began
ReturnCached(op, args, cache, out) ==
    ret' = [op |-> op, args |-> args, kb_file |-> KbFile,
            built_before |-> ~cache.is_none,
            raised |-> out.raised, value |-> out.value]

LoadSnippets ==
    LET out == load_snippets(_snippets_cache, kb_exists, kb_lines)
    IN  /\ _snippets_cache' = out.cache
        /\ ReturnCached("load_snippets", <<>>, _snippets_cache, out)
        /\ UNCHANGED <<envVars, otherVars, genVars, storeVars, _RAG_SNIPPETS_CACHE, seen>>

GetRelevantSnippets(prompt_text, generated_code) ==
    LET out == get_relevant_snippets(_snippets_cache, kb_exists, kb_lines,
                                     prompt_text, generated_code)
    IN  /\ _snippets_cache' = out.cache
        /\ ReturnCached("get_relevant_snippets", <<prompt_text, generated_code>>,
                        _snippets_cache, out)
        /\ UNCHANGED <<envVars, otherVars, genVars, storeVars, _RAG_SNIPPETS_CACHE, seen>>

KeywordStoreRetrieve(prompt_text, top_k) ==
    LET out == keyword_store_retrieve(_snippets_cache, kb_exists, kb_lines,
                                      prompt_text, top_k)
    IN  /\ _snippets_cache' = out.cache
        /\ ReturnCached("keyword_store_retrieve", <<prompt_text, top_k>>,
                        _snippets_cache, out)
        /\ UNCHANGED <<envVars, otherVars, genVars, storeVars, _RAG_SNIPPETS_CACHE, seen>>

KeywordStatistics ==
    \E common \in MostCommonChoices(AllKeywords(
                      load_snippets(_snippets_cache, kb_exists, kb_lines).value)) :
        LET out == RAGStore_get_statistics(_snippets_cache, kb_exists, kb_lines,
                                           common)
        IN  /\ _snippets_cache' = out.cache
            /\ ReturnCached("RAGStore.get_statistics", <<>>, _snippets_cache, out)
            /\ UNCHANGED <<envVars, otherVars, genVars, storeVars, _RAG_SNIPPETS_CACHE, seen>>

LoadRagSnippetsFromFile ==
    LET out == load_rag_snippets_from_file(_RAG_SNIPPETS_CACHE, kb_exists,
                                           kb_lines)
    IN  /\ _RAG_SNIPPETS_CACHE' = out.cache
        /\ ReturnCached("load_rag_snippets_from_file", <<>>,
                        _RAG_SNIPPETS_CACHE, out)
        /\ UNCHANGED <<envVars, otherVars, genVars, storeVars, _snippets_cache, seen>>

PseudoGetRelevantSnippets(prompt_text, generated_code) ==
    LET out == pseudo_get_relevant_snippets(_RAG_SNIPPETS_CACHE, kb_exists,
                                            kb_lines, prompt_text, generated_code)
    IN  /\ _RAG_SNIPPETS_CACHE' = out.cache
        /\ ReturnCached("pseudo_rag_store.get_relevant_snippets",
                        <<prompt_text, generated_code>>, _RAG_SNIPPETS_CACHE, out)
        /\ UNCHANGED <<envVars, otherVars, genVars, storeVars, _snippets_cache, seen>>

NextKeyword ==
    \/ LoadSnippets
    \/ \E prompt_text \in KeywordPrompts, generated_code \in GeneratedCodes :
           GetRelevantSnippets(prompt_text, generated_code)
    \/ \E prompt_text \in KeywordPrompts, top_k \in TopKs :
           KeywordStoreRetrieve(prompt_text, top_k)
    \/ KeywordStatistics
    \/ LoadRagSnippetsFromFile
    \/ \E prompt_text \in KeywordPrompts, generated_code \in GeneratedCodes :
           PseudoGetRelevantSnippets(prompt_text, generated_code)

SpecKeyword == Init /\ [][NextKeyword]_vars

(***************************************************************************)
(* A knowledge-base file that is written and deleted while a client uses   *)
(* a GraphRAGStore and a RAGStore on it                                    *)
(***************************************************************************)
\* the contents the file takes
FileVersions ==
    {<<S3Line, LbLine>>, <<VpcLine>>, <<S3Line, BlankLine>>, <<>>}

FilePrompts == {"Create an S3 bucket with versioning", "quantum teleporter"}

InitFile ==
    /\ kb_exists \in BOOLEAN
    /\ kb_lines \in FileVersions
    /\ ~kb_exists => kb_lines = <<>>
    /\ hashOrder \in Orders
    /\ _graph_built = NewStore._graph_built
    /\ _graph = NewStore._graph
    /\ _snippet_data = NewStore._snippet_data
    /\ _keyword_to_snippets = NewStore._keyword_to_snippets
    /\ _resource_to_snippets = NewStore._resource_to_snippets
    /\ _stats = NewStore._stats
    /\ _snippets_cache = None
    /\ _RAG_SNIPPETS_CACHE = None
    /\ InitOther
    /\ InitGenerator(1)
    /\ ret = NoCall
    /\ seen = NoCall

WriteFile(lines) ==
    /\ kb_exists' = TRUE
    /\ kb_lines' = lines
    /\ UNCHANGED <<hashOrder, otherVars, genVars, storeVars, cacheVars, ret, seen>>

DeleteFile ==
    /\ kb_exists
    /\ kb_exists' = FALSE
    /\ kb_lines' = <<>>
    /\ UNCHANGED <<hashOrder, otherVars, genVars, storeVars, cacheVars, ret, seen>>

NextFile ==
    \/ \E lines \in FileVersions : WriteFile(lines)
    \/ DeleteFile
    \/ LoadGraph
    \/ \E prompt_text \in FilePrompts, top_k \in RepeatTopKs :
           Query(prompt_text, top_k)
    \/ GetStatistics
    \/ LoadSnippets
    \/ \E prompt_text \in FilePrompts : GetRelevantSnippets(prompt_text, "")
    \/ \E prompt_text \in FilePrompts, top_k \in RepeatTopKs :
           KeywordStoreRetrieve(prompt_text, top_k)
    \/ KeywordStatistics

SpecFile == InitFile /\ [][NextFile]_vars

(***************************************************************************)
(* Two knowledge bases in one process: a GraphRAGStore and a RAGStore on   *)
(* each path, and the functions of pseudo_rag_store called with either     *)
(* path.  The files do not change.                                         *)
(***************************************************************************)
\* the contents of a knowledge base that exists
IsolationFiles == {<<S3Line>>, <<VpcLine, LbLine>>}

InitIsolation ==
    /\ kb_exists \in BOOLEAN
    /\ kb_lines \in IF kb_exists THEN IsolationFiles ELSE {<<>>}
    /\ hashOrder \in Orders
    /\ _graph_built = NewStore._graph_built
    /\ _graph = NewStore._graph
    /\ _snippet_data = NewStore._snippet_data
    /\ _keyword_to_snippets = NewStore._keyword_to_snippets
    /\ _resource_to_snippets = NewStore._resource_to_snippets
    /\ _stats = NewStore._stats
    /\ _snippets_cache = None
    /\ _RAG_SNIPPETS_CACHE = None
    /\ \E exists \in BOOLEAN :
           \E lines \in IF exists THEN IsolationFiles ELSE {<<>>} :
               other_kb_file = [exists |-> exists, lines |-> lines]
    /\ other_store = NewStore
    /\ other_snippets_cache = None
    /\ InitGenerator(1)
    /\ ret = NoCall
    /\ seen = NoCall

\* the outcome of a call on the second knowledge base
ReturnOther(op, args, built_before, out) ==
    ret' = [op |-> op, args |-> args, kb_file |-> OtherKbFile,
            built_before |-> built_before,
            raised |-> out.raised, value |-> out.value]

\* what a call on the second knowledge base leaves alone
OtherFrame ==
    UNCHANGED <<envVars, storeVars, genVars, other_kb_file, seen>>

\* GraphRAGStore(OtherPath).load_graph()
OtherLoadGraph ==
    LET out == load_graph(other_store, other_kb_file.exists, other_kb_file.lines)
    IN  /\ other_store' = out.store
        /\ ReturnOther("load_graph", <<>>, other_store._graph_built, out)
        /\ OtherFrame
        /\ UNCHANGED <<cacheVars, other_snippets_cache>>

\* GraphRAGStore(OtherPath).query(prompt_text, top_k)
OtherQuery(prompt_text, top_k) ==
    LET out == query(other_store, hashOrder, other_kb_file.exists,
                     other_kb_file.lines, prompt_text, top_k)
    IN  /\ other_store' = out.store
        /\ ReturnOther("query", <<prompt_text, top_k>>,
                       other_store._graph_built, out)
        /\ OtherFrame
        /\ UNCHANGED <<cacheVars, other_snippets_cache>>

\* RAGStore(OtherPath).load_snippets()
OtherLoadSnippets ==
    LET out == load_snippets(other_snippets_cache, other_kb_file.exists,
                             other_kb_file.lines)
    IN  /\ other_snippets_cache' = out.cache
        /\ ReturnOther("load_snippets", <<>>, ~other_snippets_cache.is_none, out)
        /\ OtherFrame
        /\ UNCHANGED <<cacheVars, other_store>>

\* RAGStore(OtherPath).get_relevant_snippets(prompt_text, generated_code)
OtherGetRelevantSnippets(prompt_text, generated_code) ==
    LET out == get_relevant_snippets(other_snippets_cache, other_kb_file.exists,
                                     other_kb_file.lines, prompt_text,
                                     generated_code)
    IN  /\ other_snippets_cache' = out.cache
        /\ ReturnOther("get_relevant_snippets", <<prompt_text, generated_code>>,
                       ~other_snippets_cache.is_none, out)
        /\ OtherFrame
        /\ UNCHANGED <<cacheVars, other_store>>

\* pseudo_rag_store.load_rag_snippets_from_file(OtherPath): the cache is the
\* one of the module
LoadRagSnippetsFromOtherFile ==
    LET out == load_rag_snippets_from_file(_RAG_SNIPPETS_CACHE,
                                           other_kb_file.exists,
                                           other_kb_file.lines)
    IN  /\ _RAG_SNIPPETS_CACHE' = out.cache
        /\ ReturnOther("load_rag_snippets_from_file", <<>>,
                       ~_RAG_SNIPPETS_CACHE.is_none, out)
        /\ OtherFrame
        /\ UNCHANGED <<_snippets_cache, other_store, other_snippets_cache>>

NextIsolation ==
    \/ LoadGraph
    \/ \E prompt_text \in FilePrompts : Query(prompt_text, MaxTopK)
    \/ LoadSnippets
    \/ \E prompt_text \in FilePrompts : GetRelevantSnippets(prompt_text, "")
    \/ LoadRagSnippetsFromFile
    \/ \E prompt_text \in FilePrompts : PseudoGetRelevantSnippets(prompt_text, "")
    \/ OtherLoadGraph
    \/ \E prompt_text \in FilePrompts : OtherQuery(prompt_text, MaxTopK)
    \/ OtherLoadSnippets
    \/ \E prompt_text \in FilePrompts : OtherGetRelevantSnippets(prompt_text, "")
    \/ LoadRagSnippetsFromOtherFile

SpecIsolation == InitIsolation /\ [][NextIsolation]_vars

(***************************************************************************)
(* The two extraction methods applied to texts, on a store that is not     *)
(* loaded                                                                  *)
(***************************************************************************)
\* words in either case, stopwords, short and underscore-separated tokens
TokenizerWords ==
    {"S3", "my_Bucket", "the", "Load_Balancer_v2", "Create", "aws_s3_bucket"}

TokenizerSeparators == {" ", "_"}

\* the empty text, the words, and two words with a separator between them
TokenizerTexts ==
    {""} \cup TokenizerWords
         \cup {a \o sep \o b : a \in TokenizerWords, sep \in TokenizerSeparators,
                                b \in TokenizerWords}

KeywordsOfText == [text \in TokenizerTexts |-> _extract_prompt_keywords(text)]

ResourcesOfText == [text \in TokenizerTexts |-> _detect_prompt_resources(text)]

InitTokenizer ==
    /\ kb_exists = FALSE
    /\ kb_lines = <<>>
    /\ hashOrder = [i \in 1..MaxLines |-> i - 1]
    /\ _graph_built = NewStore._graph_built
    /\ _graph = NewStore._graph
    /\ _snippet_data = NewStore._snippet_data
    /\ _keyword_to_snippets = NewStore._keyword_to_snippets
    /\ _resource_to_snippets = NewStore._resource_to_snippets
    /\ _stats = NewStore._stats
    /\ _snippets_cache = None
    /\ _RAG_SNIPPETS_CACHE = None
    /\ InitOther
    /\ InitGenerator(1)
    /\ ret = NoCall
    /\ seen = NoCall

ExtractPromptKeywords(prompt_text) ==
    /\ Return("_extract_prompt_keywords", <<prompt_text>>,
              [raised |-> "none", value |-> KeywordsOfText[prompt_text]])
    /\ UNCHANGED <<envVars, otherVars, genVars, storeVars, cacheVars, seen>>

DetectPromptResources(prompt_text) ==
    /\ Return("_detect_prompt_resources", <<prompt_text>>,
              [raised |-> "none", value |-> ResourcesOfText[prompt_text]])
    /\ UNCHANGED <<envVars, otherVars, genVars, storeVars, cacheVars, seen>>

NextTokenizer ==
    \/ \E prompt_text \in TokenizerTexts : ExtractPromptKeywords(prompt_text)
    \/ \E prompt_text \in TokenizerTexts : DetectPromptResources(prompt_text)

SpecTokenizer == InitTokenizer /\ [][NextTokenizer]_vars

(***************************************************************************)
(* IaCGenerator.forward, from one answer of a predictor or of the          *)
(* validator to the next call of one; the generator uses its own RAGStore  *)
(* on the default path                                                     *)
(***************************************************************************)
GeneratorPrompts == {"Create an S3 bucket with versioning", "quantum teleporter"}

InitGenerate ==
    /\ kb_exists \in BOOLEAN
    /\ kb_lines = IF kb_exists THEN <<S3Line, LbLine>> ELSE <<>>
    /\ hashOrder = [i \in 1..MaxLines |-> i - 1]
    /\ _graph_built = NewStore._graph_built
    /\ _graph = NewStore._graph
    /\ _snippet_data = NewStore._snippet_data
    /\ _keyword_to_snippets = NewStore._keyword_to_snippets
    /\ _resource_to_snippets = NewStore._resource_to_snippets
    /\ _stats = NewStore._stats
    /\ _snippets_cache = None
    /\ _RAG_SNIPPETS_CACHE = None
    /\ InitOther
    /\ \E retries \in (0 - 1)..MaxRetries : InitGenerator(retries)
    /\ ret = NoCall
    /\ seen = NoCall

\* what forward and get_generation_metrics leave alone
GeneratorFrame ==
    UNCHANGED <<envVars, otherVars, storeVars, _RAG_SNIPPETS_CACHE, max_retries,
                seen>>

\* forward returns value
ReturnForward(prompt_text, value) ==
    ret' = [op |-> "forward", args |-> <<prompt_text>>, kb_file |-> KbFile,
            built_before |-> FALSE, raised |-> "none", value |-> value]

\* lines 53-75: forward up to the call of the first predictor; with
\* max_retries + 1 <= 0 the loop has no pass and line 128 returns
Forward(prompt_text) ==
    /\ pc \in {"idle", "returned"}
    /\ LET rag == get_relevant_snippets(_snippets_cache, kb_exists, kb_lines,
                                        prompt_text, "")
           rag_context_for_llm ==
               IF rag.value # "" THEN rag.value ELSE NoRagSnippets
       IN  /\ _snippets_cache' = rag.cache
           /\ history' = <<>>
           /\ prompt' = prompt_text
           /\ generated_iac' = ""
           /\ error_feedback' = ""
           /\ attempt' = 0
           /\ IF max_retries + 1 > 0
              THEN /\ current_step_log' =
                          InitialStepLog(prompt_text, rag_context_for_llm)
                   /\ llm_calls' =
                          <<[predictor   |-> "initial_generator",
                             rag_context |-> rag_context_for_llm,
                             prompt      |-> prompt_text]>>
                   /\ pc' = "initial_generator"
                   /\ UNCHANGED ret
              ELSE /\ current_step_log' = <<>>
                   /\ llm_calls' = <<>>
                   /\ pc' = "returned"
                   /\ ReturnForward(prompt_text, "")
    /\ GeneratorFrame

\* the loop going on to the next attempt although the code is valid, until
\* the attempts are used up
ConcludeIgnoringVerdict(appended, iac, is_valid, validation_error_or_msg) ==
    LET last   == Len(appended)
        judged ==
            [appended EXCEPT ![last] =
                WithField(WithField(@, "validation_status",
                                    IF is_valid THEN "Valid" ELSE "Invalid"),
                          "validation_message", validation_error_or_msg)]
    IN  /\ history' = judged
        /\ generated_iac' = iac
        /\ error_feedback' = validation_error_or_msg
        /\ IF attempt >= max_retries
           THEN /\ pc' = "returned"
                /\ ReturnForward(prompt, iac)
                /\ UNCHANGED <<attempt, current_step_log, llm_calls,
                               _snippets_cache>>
           ELSE LET rag == get_relevant_snippets(_snippets_cache, kb_exists,
                               kb_lines, prompt, judged[last].output_from_llm)
                IN  /\ attempt' = attempt + 1
                    /\ current_step_log' =
                           RetryStepLog(attempt + 2, validation_error_or_msg)
                    /\ _snippets_cache' = rag.cache
                    /\ llm_calls' =
                           Append(llm_calls,
                               [predictor         |-> "retry_generator",
                                original_prompt   |-> prompt,
                                previous_iac_code |-> judged[last].output_from_llm,
                                error_message_with_hints |->
                                    ErrorMessageWithHints(validation_error_or_msg,
                                                          rag.value)])
                    /\ pc' = "retry_generator"
                    /\ UNCHANGED ret

\* lines 115-126, and lines 62-96 of the next pass of the loop up to the
\* call of the retry predictor: appended is the history with the log of the
\* attempt, iac its cleaned output
Conclude(appended, iac, is_valid, validation_error_or_msg) ==
    LET last   == Len(appended)
        judged ==
            [appended EXCEPT ![last] =
                WithField(WithField(@, "validation_status",
                                    IF is_valid THEN "Valid" ELSE "Invalid"),
                          "validation_message", validation_error_or_msg)]
    IN  /\ history' = judged
        /\ generated_iac' = iac
        /\ IF is_valid
           THEN /\ pc' = "returned"
                /\ ReturnForward(prompt, iac)
                /\ UNCHANGED <<error_feedback, attempt, current_step_log,
                               llm_calls, _snippets_cache>>
           ELSE /\ error_feedback' = validation_error_or_msg
                /\ IF attempt >= max_retries
                   THEN /\ pc' = "returned"
                        /\ ReturnForward(prompt, iac)
                        /\ UNCHANGED <<attempt, current_step_log, llm_calls,
                                       _snippets_cache>>
                   ELSE LET rag == get_relevant_snippets(_snippets_cache,
                                       kb_exists, kb_lines, prompt,
                                       judged[last].output_from_llm)
                        IN  /\ attempt' = attempt + 1
                            /\ current_step_log' =
                                   RetryStepLog(attempt + 2, validation_error_or_msg)
                            /\ _snippets_cache' = rag.cache
                            /\ llm_calls' =
                                   Append(llm_calls,
                                       [predictor         |-> "retry_generator",
                                        original_prompt   |-> prompt,
                                        previous_iac_code |->
                                            judged[last].output_from_llm,
                                        error_message_with_hints |->
                                            ErrorMessageWithHints(
                                                validation_error_or_msg,
                                                rag.value)])
                            /\ pc' = "retry_generator"
                            /\ UNCHANGED ret

\* the predictor answers raw_output: lines 76-78 or 97-99, line 101, and for
\* an empty text lines 104-106 and what follows the validation
PredictorAnswers(raw_output) ==
    /\ pc \in {"initial_generator", "retry_generator"}
    /\ LET iac      == CleanedOutput[raw_output]
           appended == Append(history,
                              WithField(current_step_log, "output_from_llm", iac))
       IN  IF iac = ""
           THEN Conclude(appended, iac, FALSE, EmptyOutputMessage)
           ELSE /\ history' = appended
                /\ generated_iac' = iac
                /\ pc' = "validator"
                /\ UNCHANGED <<error_feedback, attempt, current_step_log,
                               llm_calls, _snippets_cache, ret>>
    /\ UNCHANGED prompt
    /\ GeneratorFrame

\* the validator answers verdict (line 108 or 110)
ValidatorAnswers(verdict) ==
    /\ pc = "validator"
    /\ Conclude(history, generated_iac, verdict.is_valid, verdict.message)
    /\ UNCHANGED prompt
    /\ GeneratorFrame

\* lines 136-153, between two calls of forward; attempts_until_success is
\* <<n>> for the number n and <<>> for None
get_generation_metrics(steps) ==
    IF steps = <<>> THEN EmptyDict
    ELSE LET valid_steps ==
                 {i \in 1..Len(steps) : steps[i].validation_status = "Valid"}
             successful == valid_steps # {}
         IN  [total_attempts |-> Len(steps),
              successful     |-> successful,
              attempts_until_success |->
                  IF successful
                  THEN <<CHOOSE i \in valid_steps :
                             \A j \in valid_steps : i <= j>>
                  ELSE <<>>,
              rag_used |->
                  \E i \in 1..Len(steps) :
                      /\ "rag_context_used_summary" \in DOMAIN steps[i]
                      /\ steps[i].rag_context_used_summary # "None",
              final_validation_status |-> steps[Len(steps)].validation_status]

GetGenerationMetrics ==
    /\ pc \in {"idle", "returned"}
    /\ ret' = [op |-> "get_generation_metrics", args |-> <<>>,
               kb_file |-> KbFile, built_before |-> FALSE, raised |-> "none",
               value |-> get_generation_metrics(history)]
    /\ UNCHANGED <<genVars, cacheVars>>
    /\ GeneratorFrame

NextGenerate ==
    \/ \E prompt_text \in GeneratorPrompts : Forward(prompt_text)
    \/ \E raw_output \in LlmOutputs : PredictorAnswers(raw_output)
    \/ \E verdict \in ValidatorVerdicts : ValidatorAnswers(verdict)
    \/ GetGenerationMetrics

SpecGenerate == InitGenerate /\ [][NextGenerate]_vars

(***************************************************************************)
(* Properties                                                              *)
(***************************************************************************)
QueryReturned == ret.op = "query" /\ ret.raised = "none"

PromptOf(call) == call.args[1]

TopKOf(call) == call.args[2]

NonIncreasing(results) ==
    \A i \in 1..(Len(results) - 1) : results[i].score >= results[i + 1].score

\* the query of the last call found no snippet through the reverse indices
TookFallback ==
    IndexedSnippets(Store, KeywordsOfPrompt[PromptOf(ret)],
                    ResourcesOfPrompt[PromptOf(ret)]) = {}

\* C1: on a knowledge base with at least one snippet, a query with a
\* non-empty prompt and top_k >= 1 returns between 1 and top_k results, with
\* non-increasing scores.
C1_QueryBounds ==
    (/\ QueryReturned
     /\ DOMAIN _snippet_data # {}
     /\ PromptOf(ret) # ""
     /\ TopKOf(ret) >= 1)
    => /\ Len(ret.value) >= 1
       /\ Len(ret.value) <= TopKOf(ret)
       /\ NonIncreasing(ret.value)

\* two snippets matched the prompt with different scores
C1_Witness ==
    /\ QueryReturned
    /\ PromptOf(ret) # ""
    /\ TopKOf(ret) = 2
    /\ Len(ret.value) = 2
    /\ ret.value[1].score > ret.value[2].score
    /\ ret.value[1].snippet_id > ret.value[2].snippet_id

\* C2: results with equal scores are returned in the order in which their
\* snippets were loaded, that is by increasing snippet id.
C2_TiesInInsertionOrder ==
    QueryReturned
    => \A i, j \in 1..Len(ret.value) :
           (i < j /\ ret.value[i].score = ret.value[j].score)
           => ret.value[i].snippet_id < ret.value[j].snippet_id

\* C3: a query returns what an earlier query with the same prompt and
\* top_k returned on the same loaded graph: the same snippets with the same
\* scores in the same order.
C3_Deterministic ==
    (/\ QueryReturned
     /\ seen.op = "query"
     /\ seen.raised = "none"
     /\ seen.args = ret.args)
    => ret.value = seen.value

\* the kept query loaded the graph, the last one found it built, and both
\* returned two results of equal score
C3_Witness ==
    /\ QueryReturned
    /\ seen.op = "query"
    /\ seen.raised = "none"
    /\ seen.args = ret.args
    /\ ~seen.built_before
    /\ ret.built_before
    /\ Len(ret.value) = 2
    /\ ret.value[1].score = ret.value[2].score

\* C4: the first successful load_graph returns the statistics it stores;
\* once the graph is built no call changes the stored statistics, and a
\* load_graph returns them and leaves the graph, the snippet table and both
\* reverse indices as they are.
C4_LoadIdempotent ==
    /\ []((ret.op = "load_graph" /\ ret.raised = "none") => ret.value = _stats)
    /\ [][_graph_built
            => /\ _stats' = _stats
               /\ (ret'.op = "load_graph"
                     => /\ ret'.raised = "none"
                        /\ ret'.value = _stats
                        /\ UNCHANGED storeVars)]_vars

\* load_graph was called on a built graph with snippets, keywords and
\* resources
C4_Witness ==
    /\ ret.op = "load_graph"
    /\ ret.built_before
    /\ ret.raised = "none"
    /\ ret.value.snippets = 2
    /\ ret.value.keywords > 0
    /\ ret.value.resource_types > 0

InUnitInterval(x) == x.den > 0 /\ 0 <= x.num /\ x.num <= x.den

\* C5: for every loaded snippet and every prompt the two Jaccard scores,
\* the two overlap scores and the connectivity score lie in [0,1], and so
\* does the rounded total score; every score a query reports lies in [0,1].
C5_ScoresBounded ==
    /\ \A snippet_id \in DOMAIN _snippet_data : \A p \in Prompts :
         LET snippet == _snippet_data[snippet_id]
             pk == KeywordsOfPrompt[p]
             pr == ResourcesOfPrompt[p]
         IN  /\ InUnitInterval(_jaccard_similarity(snippet.keywords, pk))
             /\ InUnitInterval(_overlap_score(snippet.keywords, pk))
             /\ InUnitInterval(_jaccard_similarity(snippet.resource_types, pr))
             /\ InUnitInterval(_overlap_score(snippet.resource_types, pr))
             /\ InUnitInterval(_connectivity_score(_graph, snippet_id, pk, pr))
             /\ RoundedScore(Store, snippet_id, pk, pr) \in 0..ScoreScale
    /\ QueryReturned
         => \A i \in 1..Len(ret.value) : ret.value[i].score \in 0..ScoreScale

\* a query reported a score strictly between 0 and 1 for a snippet whose
\* keyword overlap with the prompt is 1
C5_Witness ==
    /\ QueryReturned
    /\ Len(ret.value) >= 1
    /\ ret.value[1].score > 0
    /\ ret.value[1].score < ScoreScale
    /\ _overlap_score(_snippet_data[ret.value[1].snippet_id].keywords,
                      KeywordsOfPrompt[PromptOf(ret)]) = [num |-> 1, den |-> 1]

\* C6 as stated: a query that takes the all-snippets fallback on a
\* non-empty knowledge base returns top_k results.
C6_FallbackReturnsTopK ==
    (QueryReturned /\ DOMAIN _snippet_data # {} /\ TookFallback)
    => Len(ret.value) = TopKOf(ret)

\* C6: a query that takes the all-snippets fallback on a non-empty
\* knowledge base returns min(max(1, top_k), number of snippets) results,
\* at least one, of distinct loaded snippets, each with its computed score.
C6_FallbackReturnsSnippets ==
    (QueryReturned /\ DOMAIN _snippet_data # {} /\ TookFallback)
    => /\ Len(ret.value) =
              Min(Max(1, TopKOf(ret)), Cardinality(DOMAIN _snippet_data))
       /\ Len(ret.value) >= 1
       /\ \A i \in 1..Len(ret.value) :
            /\ ret.value[i].snippet_id \in DOMAIN _snippet_data
            /\ ret.value[i].score =
                   RoundedScore(Store, ret.value[i].snippet_id,
                                KeywordsOfPrompt[PromptOf(ret)],
                                ResourcesOfPrompt[PromptOf(ret)])
            /\ \A j \in 1..Len(ret.value) :
                   i # j => ret.value[i].snippet_id # ret.value[j].snippet_id

\* a non-empty prompt that matches nothing got both snippets of the
\* knowledge base although top_k is greater
C6_Witness ==
    /\ QueryReturned
    /\ TookFallback
    /\ PromptOf(ret) # ""
    /\ TopKOf(ret) = 3
    /\ Len(ret.value) = 2

\* C7: while the knowledge-base file does not exist every call of
\* load_graph, query and get_statistics raises FileNotFoundError and returns
\* nothing, the graph is never marked built and the store stays as
\* constructed.
C7_MissingFileRaises ==
    ~kb_exists
    => /\ ret.op # "new" => (ret.raised = "FileNotFoundError" /\ ret.value = <<>>)
       /\ ~_graph_built
       /\ Store = NewStore

\* a query on a store without a file raised
C7_Witness ==
    /\ ~kb_exists
    /\ ret.op = "query"
    /\ ret.raised = "FileNotFoundError"

\* C8: a query or get_statistics that returns leaves the store as an
\* explicit load_graph on a new store leaves it, and returns what the call
\* returns on that store; get_statistics returns the statistics load_graph
\* returns.
C8_LazyLoadEquivalent ==
    LET explicit == load_graph(NewStore, kb_exists, kb_lines)
    IN  /\ QueryReturned
            => /\ explicit.raised = "none"
               /\ Store = explicit.store
               /\ ret.value = QueryBuilt(explicit.store, hashOrder,
                                         PromptOf(ret), TopKOf(ret))
        /\ (ret.op = "get_statistics" /\ ret.raised = "none")
            => /\ explicit.raised = "none"
               /\ Store = explicit.store
               /\ ret.value = explicit.value

\* a query on a store that was never loaded returned results
C8_Witness ==
    /\ QueryReturned
    /\ ~ret.built_before
    /\ Len(ret.value) = 2

\* the number of well-formed lines of the file
RECURSIVE CountRecords(_)
CountRecords(lines) ==
    IF lines = <<>> THEN 0
    ELSE (IF Head(lines).valid THEN 1 ELSE 0) + CountRecords(Tail(lines))

\* C9: load_graph on an existing file returns, whatever lines json.loads
\* rejects, and the snippets of all the well-formed lines are loaded.
C9_MalformedLineSkipped ==
    (kb_exists /\ ret.op = "load_graph")
    => /\ ret.raised = "none"
       /\ ret.value.snippets = CountRecords(kb_lines)
       /\ Cardinality(DOMAIN _snippet_data) = CountRecords(kb_lines)

NodeKind(node) == SubSeq(node, 1, 2)

NodeName(node) == SubSeq(node, 3, Len(node))

\* the nodes of the graph: the keys and the members of the adjacency sets
GraphNodes == DOMAIN _graph \cup UNION {_graph[a] : a \in DOMAIN _graph}

\* the graph holds an edge between a and b
Edge(a, b) == b \in DictGet(_graph, a) \/ a \in DictGet(_graph, b)

\* C11: on a built graph, before and after queries, a snippet id is in
\* keyword_to_snippets[k] exactly when the graph holds an edge between the
\* snippet's node and the keyword node of k, and likewise for
\* resource_to_snippets and the resource nodes.
C11_IndexConsistent ==
    _graph_built
    => LET ids == DOMAIN _snippet_data
                    \cup UNION {_keyword_to_snippets[k] :
                                   k \in DOMAIN _keyword_to_snippets}
                    \cup UNION {_resource_to_snippets[r] :
                                   r \in DOMAIN _resource_to_snippets}
           keywords  == DOMAIN _keyword_to_snippets
                          \cup {NodeName(n) :
                                   n \in {m \in GraphNodes : NodeKind(m) = "k:"}}
           resources == DOMAIN _resource_to_snippets
                          \cup {NodeName(n) :
                                   n \in {m \in GraphNodes : NodeKind(m) = "r:"}}
       IN  /\ \A id \in ids : \A k \in keywords :
                 id \in DictGet(_keyword_to_snippets, k)
                   <=> Edge(_snippet_node(id), _keyword_node(k))
           /\ \A id \in ids : \A r \in resources :
                 id \in DictGet(_resource_to_snippets, r)
                   <=> Edge(_snippet_node(id), _resource_node(r))

\* a query ran on a built graph in which a keyword indexes one snippet and
\* a resource the other one
C11_Witness ==
    /\ _graph_built
    /\ ret.op = "query"
    /\ ret.built_before
    /\ \E k \in DOMAIN _keyword_to_snippets :
         \E r \in DOMAIN _resource_to_snippets :
           /\ Cardinality(_keyword_to_snippets[k]) = 1
           /\ Cardinality(_resource_to_snippets[r]) = 1
           /\ _keyword_to_snippets[k] # _resource_to_snippets[r]

\* the keywords a record of the file lists
ListedKeywords(line) == Get(line.obj, "keywords", <<>>)

\* C12: on a built graph every underscore-separated component of a listed
\* keyword that is longer than 2 characters and no stopword indexes the
\* snippet of the record; a snippet listed with "load_balancer" is found
\* through the keyword index, not through the fallback, by the prompt
\* "balancer".
C12_UnderscoreExpansion ==
    _graph_built
    => /\ \A i \in 1..Len(kb_lines) :
            \A j \in 1..Len(ListedKeywords(kb_lines[i])) :
              \A comp \in SplitUnderscore(
                              Lower(Strip(ListedKeywords(kb_lines[i])[j]))) :
                (Len(comp) > 2 /\ comp \notin STOPWORDS)
                => (i - 1) \in DictGet(_keyword_to_snippets, comp)
       /\ (QueryReturned /\ PromptOf(ret) = "balancer")
            => \A i \in 1..Len(kb_lines) :
                 (\E j \in 1..Len(ListedKeywords(kb_lines[i])) :
                      ListedKeywords(kb_lines[i])[j] = "load_balancer")
                 => /\ (i - 1) \in UNION {DictGet(_keyword_to_snippets, k) :
                                             k \in KeywordsOfPrompt["balancer"]}
                    /\ ~TookFallback

\* the prompt "balancer" found the snippet listed with "load_balancer",
\* loaded after a snippet it does not find
C12_Witness ==
    /\ QueryReturned
    /\ PromptOf(ret) = "balancer"
    /\ Len(kb_lines) = 2
    /\ Len(ret.value) = 1
    /\ ret.value[1].snippet_id = 1
    /\ ret.value[1].snippet_name = "Balancer"
    /\ ret.value[1].score > 0

\* the prompts that contain "bucket" as a word of its own, in any letter
\* case
BucketPrompts == {p \in Prompts : WordSearch("bucket", Lower(p))}

\* C13: for a prompt that contains "bucket" as a word of its own, in any
\* letter case, the detected resources contain aws_s3_bucket, and a query
\* with it reaches every snippet whose code declares aws_s3_bucket through
\* the resource index.
C13_ServiceNameHeuristic ==
    /\ \A p \in BucketPrompts : "aws_s3_bucket" \in ResourcesOfPrompt[p]
    /\ (QueryReturned /\ PromptOf(ret) \in BucketPrompts)
         => \A id \in DOMAIN _snippet_data :
              "aws_s3_bucket" \in _snippet_data[id].resource_types
              => /\ id \in UNION {DictGet(_resource_to_snippets, r) :
                                     r \in ResourcesOfPrompt[PromptOf(ret)]}
                 /\ ~TookFallback

\* a prompt with BUCKET in upper case, which names no other service, found
\* the snippet that declares the bucket, loaded second
C13_Witness ==
    /\ QueryReturned
    /\ PromptOf(ret) = "Tag my BUCKET"
    /\ PromptOf(ret) \in BucketPrompts
    /\ ResourcesOfPrompt[PromptOf(ret)] = {"aws_s3_bucket"}
    /\ Len(ret.value) = 1
    /\ ret.value[1].snippet_id = 1
    /\ "aws_s3_bucket" \in _snippet_data[1].resource_types

\* the snippets of the example: keywords {s3, bucket, versioning} and
\* resource types {aws_s3_bucket}
ExampleSnippets ==
    {id \in DOMAIN _snippet_data :
        /\ _snippet_data[id].keywords = {"s3", "bucket", "versioning"}
        /\ _snippet_data[id].resource_types = {"aws_s3_bucket"}}

ExampleQueried ==
    QueryReturned /\ PromptOf(ret) = "Create an S3 bucket with versioning"

\* C14 as stated: for the prompt "Create an S3 bucket with versioning" the
\* prompt keywords contain s3, bucket and versioning and the detected
\* resources contain aws_s3_bucket; against a snippet of the example the
\* keyword Jaccard is 1 and the resource Jaccard is 1.
C14_ExampleAsStated ==
    ExampleQueried
    => /\ {"s3", "bucket", "versioning"} \subseteq KeywordsOfPrompt[PromptOf(ret)]
       /\ "aws_s3_bucket" \in ResourcesOfPrompt[PromptOf(ret)]
       /\ \A id \in ExampleSnippets :
            /\ _jaccard_similarity(_snippet_data[id].keywords,
                                    KeywordsOfPrompt[PromptOf(ret)])
                   = [num |-> 1, den |-> 1]
            /\ _jaccard_similarity(_snippet_data[id].resource_types,
                                    ResourcesOfPrompt[PromptOf(ret)])
                   = [num |-> 1, den |-> 1]

\* C14: for the prompt "Create an S3 bucket with versioning" the prompt
\* keywords are bucket and versioning, without s3, whose length is 2, and
\* the detected resources contain aws_s3_bucket; against a snippet of the
\* example the keyword Jaccard is 2/3 and the resource Jaccard is 1.
C14_ExampleKeywords ==
    ExampleQueried
    => /\ KeywordsOfPrompt[PromptOf(ret)] = {"bucket", "versioning"}
       /\ "aws_s3_bucket" \in ResourcesOfPrompt[PromptOf(ret)]
       /\ \A id \in ExampleSnippets :
            /\ _jaccard_similarity(_snippet_data[id].keywords,
                                    KeywordsOfPrompt[PromptOf(ret)])
                   = [num |-> 2, den |-> 3]
            /\ _jaccard_similarity(_snippet_data[id].resource_types,
                                    ResourcesOfPrompt[PromptOf(ret)])
                   = [num |-> 1, den |-> 1]

\* the prompt of the example was queried on a knowledge base that holds a
\* snippet of the example, which came first
C14_Witness ==
    /\ ExampleQueried
    /\ ExampleSnippets # {}
    /\ ret.value[1].snippet_id \in ExampleSnippets
    /\ Cardinality(DOMAIN _snippet_data) = 2

\* C15: on a knowledge base made of the one snippet of the example, the
\* query "Create an S3 bucket with versioning" returns that snippet first,
\* with a score of at least 0.8.
C15_ExampleRanksFirst ==
    (/\ ExampleQueried
     /\ Cardinality(DOMAIN _snippet_data) = 1
     /\ ExampleSnippets # {})
    => /\ Len(ret.value) >= 1
       /\ ret.value[1].snippet_id \in ExampleSnippets
       /\ 10 * ret.value[1].score >= 8 * ScoreScale

\* the query of the example returned the one snippet of the knowledge
\* base, with the score 0.9
C15_Witness ==
    /\ ExampleQueried
    /\ Cardinality(DOMAIN _snippet_data) = 1
    /\ ExampleSnippets # {}
    /\ Len(ret.value) = 1
    /\ 10 * ret.value[1].score = 9 * ScoreScale

\* C16: a query with top_k < 1 returns what the query with top_k = 1
\* returns; every query returns min(max(1, top_k), number of candidates)
\* results.
C16_TopKCoercion ==
    QueryReturned
    => LET candidates ==
               CandidateSnippets(Store, KeywordsOfPrompt[PromptOf(ret)],
                                 ResourcesOfPrompt[PromptOf(ret)])
       IN  /\ Len(ret.value) =
                  Min(Max(1, TopKOf(ret)), Cardinality(candidates))
           /\ TopKOf(ret) < 1
                => ret.value = QueryBuilt(Store, hashOrder, PromptOf(ret), 1)

\* a query with a negative top_k and two candidates of different scores
\* returned the better one alone
C16_Witness ==
    /\ QueryReturned
    /\ TopKOf(ret) < 0
    /\ Len(ret.value) = 1
    /\ LET both == QueryBuilt(Store, hashOrder, PromptOf(ret), 2)
       IN  /\ Len(both) = 2
           /\ both[1].score > both[2].score
           /\ ret.value[1] = both[1]

\* the snippet has no neighbour of the kind and is in no set of the index
Unlinked(id, kind, index) ==
    /\ \A n \in DictGet(_graph, _snippet_node(id)) : NodeKind(n) # kind
    /\ \A key \in DOMAIN index : id \notin index[key]

\* the results of the last query hold the snippet
Returned(id) == \E j \in 1..Len(ret.value) : ret.value[j].snippet_id = id

OneReference(snippet_name, iac_code) ==
    "\n\n---\nRelevant IaC Reference Snippets:\n# Reference: "
        \o snippet_name \o "\n" \o iac_code

IsFallbackExample(list) ==
    /\ Len(list) = 1
    /\ list[1].snippet_name = "Fallback EC2 Example"
    /\ list[1].keywords = <<"ec2", "instance">>

\* C17: while the knowledge-base file does not exist no call on the keyword
\* store raises; load_snippets and load_rag_snippets_from_file return a list
\* of one record, the fallback EC2 example with the keywords ec2 and
\* instance, and the retrievals run on that record alone:
\* keyword_store_retrieve returns it and get_relevant_snippets returns its
\* reference or the empty text.
C17_MissingFileFallback ==
    ~kb_exists
    => /\ ret.raised = "none"
       /\ ret.op \in {"load_snippets", "load_rag_snippets_from_file"}
            => IsFallbackExample(ret.value)
       /\ ret.op = "keyword_store_retrieve"
            => /\ Len(ret.value) = 1
               /\ ret.value[1].snippet_id = 0
               /\ ret.value[1].snippet_name = "Fallback EC2 Example"
               /\ IsFallbackExample(_snippets_cache.list)
       /\ ret.op = "get_relevant_snippets"
            => /\ ret.value \in
                    {"", OneReference("Fallback EC2 Example",
                                      _snippets_cache.list[1].iac_code)}
               /\ IsFallbackExample(_snippets_cache.list)
       /\ ret.op = "pseudo_rag_store.get_relevant_snippets"
            => /\ ret.value \in
                    {"", OneReference("Fallback EC2 Example",
                                      _RAG_SNIPPETS_CACHE.list[1].iac_code)}
               /\ IsFallbackExample(_RAG_SNIPPETS_CACHE.list)
       /\ ret.op = "RAGStore.get_statistics" => ret.value.total_snippets = 1

\* without a file, the first call on the store was a retrieval whose prompt
\* holds both keywords of the fallback example, which it returned with the
\* score 1.0
C17_Witness ==
    /\ ~kb_exists
    /\ ret.op = "keyword_store_retrieve"
    /\ ~ret.built_before
    /\ PromptOf(ret) = "launch an EC2 Instance"
    /\ Len(ret.value) = 1
    /\ ret.value[1].score = ScoreScale

\* no snippet of the list has a keyword that occurs in the prompt
NoKeywordOccurs(list, prompt_text) ==
    \A i \in 1..Len(list) :
        \A j \in 1..Len(Get(list[i], "keywords", <<>>)) :
            ~Contains(LowerOf[prompt_text],
                      LowerOf[Get(list[i], "keywords", <<>>)[j]])

GraphCalls == {"load_graph", "query", "get_statistics"}

\* what the last call, made on the built graph, returns when no file exists
GraphValueWithoutFile ==
    IF ret.op = "query"
    THEN query(Store, hashOrder, FALSE, <<>>, PromptOf(ret), TopKOf(ret)).value
    ELSE IF ret.op = "load_graph"
    THEN load_graph(Store, FALSE, <<>>).value
    ELSE get_statistics(Store, FALSE, <<>>).value

\* C20: once the graph is built no call or change of the file changes the
\* attributes of the GraphRAGStore, and once the cache of the RAGStore is
\* set nothing changes it; a call made after that returns what it returns
\* when no file exists, whatever the file has become: written anew, emptied
\* or deleted.
C20_NoReload ==
    /\ []((ret.op \in GraphCalls /\ ret.built_before)
            => /\ ret.raised = "none"
               /\ ret.value = GraphValueWithoutFile)
    /\ []((ret.op = "load_snippets" /\ ret.built_before)
            => ret.value = _snippets_cache.list)
    /\ []((ret.op = "get_relevant_snippets" /\ ret.built_before)
            => ret.value = RelevantSnippets(_snippets_cache.list,
                                            ret.args[1], ret.args[2]))
    /\ []((ret.op = "keyword_store_retrieve" /\ ret.built_before)
            => ret.value = keyword_store_retrieve(_snippets_cache, FALSE, <<>>,
                                                  PromptOf(ret), TopKOf(ret)).value)
    /\ []((ret.op = "RAGStore.get_statistics" /\ ret.built_before)
            => ret.value.total_snippets = Len(_snippets_cache.list))
    /\ [][/\ _graph_built => UNCHANGED storeVars
          /\ ~_snippets_cache.is_none => _snippets_cache' = _snippets_cache]_vars

\* after the file was deleted a query on the built graph returned two
\* snippets, and the cache of the RAGStore holds two snippets
C20_Witness ==
    /\ ret.op = "query"
    /\ ret.built_before
    /\ ~ret.kb_file.exists
    /\ ~kb_exists
    /\ Len(ret.value) = 2
    /\ ~_snippets_cache.is_none
    /\ Len(_snippets_cache.list) = 2

\* what the last call returns when it is made first, on a store made for
\* the knowledge base it was made on
ValueInIsolation ==
    LET file == ret.kb_file
        out  ==
            CASE ret.op = "load_graph" ->
                     load_graph(NewStore, file.exists, file.lines)
              [] ret.op = "query" ->
                     query(NewStore, hashOrder, file.exists, file.lines,
                           ret.args[1], ret.args[2])
              [] ret.op = "load_snippets" ->
                     load_snippets(None, file.exists, file.lines)
              [] ret.op = "get_relevant_snippets" ->
                     get_relevant_snippets(None, file.exists, file.lines,
                                           ret.args[1], ret.args[2])
              [] ret.op = "load_rag_snippets_from_file" ->
                     load_rag_snippets_from_file(None, file.exists, file.lines)
              [] ret.op = "pseudo_rag_store.get_relevant_snippets" ->
                     pseudo_get_relevant_snippets(None, file.exists, file.lines,
                                                  ret.args[1], ret.args[2])
    IN  [raised |-> out.raised, value |-> out.value]

\* C21: with two knowledge bases used in one process, in any order, every
\* load and every retrieval on a knowledge base returns what it returns when
\* the other knowledge base is never touched: the data of its own file.
C21_StoreIsolation ==
    ret.op # "new"
    => [raised |-> ret.raised, value |-> ret.value] = ValueInIsolation

\* the edges of the graph, each as the set of its two ends
UndirectedEdges == UNION {{{a, b} : b \in _graph[a]} : a \in DOMAIN _graph}

\* the sum over the snippets ids of |keywords| + |resource_types|
RECURSIVE LinkCount(_)
LinkCount(ids) ==
    IF ids = {} THEN 0
    ELSE LET id == CHOOSE x \in ids : TRUE
         IN  Cardinality(_snippet_data[id].keywords)
                 + Cardinality(_snippet_data[id].resource_types)
                 + LinkCount(ids \ {id})

ReturnedIds == {ret.value[i].snippet_id : i \in 1..Len(ret.value)}

\* the union of the entries of the two reverse indices for the keywords and
\* resources of the prompt of the last call
IndexUnion ==
    UNION {IF k \in DOMAIN _keyword_to_snippets THEN _keyword_to_snippets[k] ELSE {} :
               k \in KeywordsOfPrompt[PromptOf(ret)]}
      \cup UNION {IF r \in DOMAIN _resource_to_snippets
                  THEN _resource_to_snippets[r] ELSE {} :
                      r \in ResourcesOfPrompt[PromptOf(ret)]}

TokensOfText == {Lower(t) : t \in FindTokens(ret.args[1], 1)}

\* C24: every keyword extracted from a text is lowercase, longer than two
\* characters and no stopword; it is a token of the text or a component of
\* an underscore-separated token that is itself among the keywords; the
\* empty text gives no keyword and no resource.
C24_TokenizerInvariant ==
    /\ ret.op = "_extract_prompt_keywords" =>
           /\ ret.raised = "none"
           /\ \A tok \in ret.value :
                  /\ Lower(tok) = tok
                  /\ Len(tok) > 2
                  /\ tok \notin STOPWORDS
                  /\ \/ tok \in TokensOfText
                     \/ \E whole \in ret.value \cap TokensOfText :
                            /\ HasUnderscore(whole)
                            /\ tok \in SplitUnderscore(whole)
           /\ ret.args[1] = "" => ret.value = {}
    /\ ret.op = "_detect_prompt_resources" =>
           /\ ret.raised = "none"
           /\ ret.args[1] = "" => ret.value = {}

\* a token with two short components and a stopword among its components:
\* the token and one component of it are the keywords
C24_Witness ==
    /\ ret.op = "_extract_prompt_keywords"
    /\ ret.args[1] = "S3_my_Bucket"
    /\ ret.value = {"s3_my_bucket", "bucket"}

\* the items of a list, as a set
ItemsOf(list) == {list[i] : i \in 1..Len(list)}

\* C25: a query on a graph that is built changes no attribute of the store
\* (the graph with its node keys, the snippet table, the two reverse
\* indices, the statistics), and the keywords and resource types of a
\* result are lists made for it, holding the items of the snippet's sets.
C25_QueryReadOnly ==
    /\ [][(ret'.op = "query" /\ _graph_built) => UNCHANGED storeVars]_vars
    /\ [](QueryReturned =>
              \A i \in 1..Len(ret.value) :
                  LET snippet == _snippet_data[ret.value[i].snippet_id]
                  IN  /\ DOMAIN ret.value[i].keywords
                             = 1..Cardinality(snippet.keywords)
                      /\ ItemsOf(ret.value[i].keywords) = snippet.keywords
                      /\ DOMAIN ret.value[i].resource_types
                             = 1..Cardinality(snippet.resource_types)
                      /\ ItemsOf(ret.value[i].resource_types)
                             = snippet.resource_types)

\* a query on a built graph for keywords the graph has no node of: the
\* nodes are not created
C25_Witness ==
    /\ QueryReturned
    /\ ret.built_before
    /\ PromptOf(ret) = "quantum teleporter"
    /\ Len(ret.value) >= 1
    /\ Len(ret.value[1].keywords) >= 2
    /\ _keyword_node("quantum") \notin DOMAIN _graph

\* a keyword of the snippet, lowercased, is a substring of the lowercased
\* text
KeywordOccurs(snippet, text) ==
    LET keywords == Get(snippet, "keywords", <<>>)
    IN  \E j \in 1..Len(keywords) : Contains(Lower(text), Lower(keywords[j]))

\* the snippet is to be included for the arguments of the last call
Included(snippet) ==
    \/ KeywordOccurs(snippet, ret.args[1])
    \/ (ret.args[2] # "" /\ KeywordOccurs(snippet, ret.args[2]))

\* the reference of one snippet
ReferenceText(snippet_name, iac_code) ==
    "# Reference: " \o snippet_name \o "\n" \o iac_code

\* the references of the snippets of the list that are to be included, in
\* the order of the list
RECURSIVE ReferencesOf(_)
ReferencesOf(list) ==
    IF list = <<>> THEN <<>>
    ELSE (IF Included(Head(list))
          THEN <<ReferenceText(Get(Head(list), "snippet_name", "Untitled Snippet"),
                               Get(Head(list), "iac_code", ""))>>
          ELSE <<>>) \o ReferencesOf(Tail(list))

\* C26: get_relevant_snippets returns the references of exactly the loaded
\* snippets with a keyword that, lowercased, is a substring of the
\* lowercased prompt or of the non-empty lowercased generated code, in load
\* order under one heading, and the empty text when there is none.
C26_KeywordMatchRule ==
    LET loaded ==
            IF ret.op = "get_relevant_snippets" THEN _snippets_cache.list
            ELSE _RAG_SNIPPETS_CACHE.list
        references == ReferencesOf(loaded)
    IN  ret.op \in {"get_relevant_snippets",
                    "pseudo_rag_store.get_relevant_snippets"}
        => /\ ret.raised = "none"
           /\ references = <<>> => ret.value = ""
           /\ references # <<>> =>
                  ret.value = "\n\n---\nRelevant IaC Reference Snippets:\n"
                                  \o Join("\n\n", references)

\* of two snippets the first is included for its keyword in the generated
\* code and the second for its empty keyword; a prompt that matches neither
C26_Witness ==
    /\ ret.op = "get_relevant_snippets"
    /\ ret.args = <<"quantum teleporter", "resource \"aws_s3_bucket\" \"b\" {}">>
    /\ _snippets_cache.list = <<S3Line.obj, LbLine.obj>>
    /\ ret.value = "\n\n---\nRelevant IaC Reference Snippets:\n"
                       \o ReferenceText("Versioned bucket", S3Line.obj.iac_code)
                       \o "\n\n" \o ReferenceText("Balancer", "")

\* C27: a load_graph call that raises leaves every attribute of the store
\* as the call found it, and a load_graph call that builds the graph leaves
\* the store a new instance would have after loading the same file.
C27_FailedLoadLeavesStore ==
    /\ [][(ret'.op = "load_graph" /\ ret'.raised # "none")
              => UNCHANGED storeVars]_vars
    /\ []((ret.op = "load_graph" /\ ret.raised = "none" /\ ~ret.built_before)
              => Store = load_graph(NewStore, ret.kb_file.exists,
                                    ret.kb_file.lines).store)

\* the text begins with the prefix
StartsWith(text, prefix) ==
    Len(text) >= Len(prefix) /\ SubSeq(text, 1, Len(prefix)) = prefix

\* C28: forward calls a predictor at most max_retries + 1 times, first the
\* initial one and then the retry one with the output and the validation
\* message of the attempt before; it goes on only while no attempt is
\* valid and returns the output of the last attempt; on return the history
\* has one entry per attempt, all but the last Invalid, and an Invalid last
\* entry means the attempts are used up.
C28_RetryLoop ==
    LET attempts == Len(llm_calls)
    IN  /\ attempts <= Max(0, max_retries + 1)
        /\ \A i \in 1..attempts :
               IF i = 1
               THEN llm_calls[i].predictor = "initial_generator"
               ELSE /\ llm_calls[i].predictor = "retry_generator"
                    /\ llm_calls[i].previous_iac_code
                           = history[i - 1].output_from_llm
                    /\ StartsWith(llm_calls[i].error_message_with_hints,
                                  "Error encountered: "
                                      \o history[i - 1].validation_message \o "\n")
                    /\ history[i - 1].validation_status = "Invalid"
        /\ pc \notin {"idle", "returned"} =>
               \A i \in 1..Len(history) :
                   "validation_status" \in DOMAIN history[i]
                       => history[i].validation_status = "Invalid"
        /\ pc = "returned" =>
               /\ Len(history) = attempts
               /\ \A i \in 1..Len(history) :
                      /\ history[i].attempt = i
                      /\ history[i].type = IF i = 1 THEN "initial_generation"
                                           ELSE "retry_generation"
                      /\ i < Len(history) =>
                             history[i].validation_status = "Invalid"
               /\ (history # <<>>
                      /\ history[Len(history)].validation_status = "Invalid")
                      => attempts = max_retries + 1
               /\ generated_iac = IF history = <<>> THEN ""
                                  ELSE history[Len(history)].output_from_llm
        /\ (pc = "returned" /\ ret.op = "forward") => ret.value = generated_iac
        /\ (pc = "returned" /\ ret.op = "get_generation_metrics"
                /\ history # <<>>) =>
               /\ ret.value.total_attempts = attempts
               /\ ret.value.successful =>
                      ret.value.attempts_until_success = <<attempts>>

\* a generator with three attempts returned the code of the second one,
\* which the validator accepted after it had rejected the first
C28_Witness ==
    /\ pc = "returned"
    /\ ret.op = "forward"
    /\ max_retries = 2
    /\ Len(history) = 2
    /\ history[1].validation_message = "Terraform command timed out."
    /\ history[2].validation_status = "Valid"
    /\ ret.value = "resource \"aws_s3_bucket\" \"b\" {}"

\* the share of the prompt's keywords and resources that the snippet holds,
\* computed from the snippet's own two sets
MembershipShare(snippet, prompt_keywords, prompt_resources) ==
    LET total_requested == Cardinality(prompt_keywords)
                               + Cardinality(prompt_resources)
        held == Cardinality(snippet.keywords \cap prompt_keywords)
                  + Cardinality(snippet.resource_types \cap prompt_resources)
    IN  IF total_requested = 0 THEN Zero ELSE Ratio(held, total_requested)

C30_FallbackScoresZero ==
    _graph_built =>
        \A p \in Prompts :
            LET pk == KeywordsOfPrompt[p]
                pr == ResourcesOfPrompt[p]
                indexed == IndexedSnippets(Store, pk, pr)
                returned == QueryReturned /\ PromptOf(ret) = p
            IN  IF indexed = {}
                THEN /\ \A snippet_id \in DOMAIN _snippet_data :
                            SnippetTotalScore100(Store, snippet_id, pk, pr) = Zero
                     /\ returned =>
                            \A i \in 1..Len(ret.value) : ret.value[i].score = 0
                ELSE /\ \A snippet_id \in indexed :
                            SnippetTotalScore100(Store, snippet_id, pk, pr).num > 0
                     /\ returned =>
                            \A i \in 1..Len(ret.value) :
                                ret.value[i].snippet_id \in indexed

\* one store answered a query by the fallback, reporting score 0 for a
\* snippet, and holds for another prompt a snippet that only the resource
\* index gives, none of the prompt's keywords being among its own
C30_Witness ==
    /\ _graph_built
    /\ QueryReturned
    /\ IndexedSnippets(Store, KeywordsOfPrompt[PromptOf(ret)],
                       ResourcesOfPrompt[PromptOf(ret)]) = {}
    /\ Len(ret.value) >= 1
    /\ ret.value[1].score = 0
    /\ \E p \in Prompts :
           \E snippet_id \in IndexedSnippets(Store, KeywordsOfPrompt[p],
                                             ResourcesOfPrompt[p]) :
               /\ _snippet_data[snippet_id].keywords \cap KeywordsOfPrompt[p] = {}
               /\ SnippetTotalScore100(Store, snippet_id, KeywordsOfPrompt[p],
                                       ResourcesOfPrompt[p]).num > 0

====
